---- MODULE Spec2Model ----
(***************************************************************************)
(* Taste profiling and recommendation scoring of Recommendarr              *)
(* (backend/app/services/taste_profiler.py, recommender.py).               *)
(*                                                                         *)
(* Numbers.  The code computes with floats; the model uses fixed point:    *)
(*   signals            whole units (the SIGNAL_WEIGHTS are whole numbers) *)
(*   decay, affinities, similarity, distance     thousandths  (1.0 = 1000) *)
(*   accumulated pool weights, scores        ten-thousandths (1.0 = 10000) *)
(* Time is counted in whole days before "now" (age); a negative age is a   *)
(* timestamp in the future.  An optional column is a set: {} is NULL and   *)
(* {v} holds the value v.                                                  *)
(***************************************************************************)
EXTENDS Integers, Sequences, FiniteSets, TLC

VARIABLES
    cache,        \* tmdb_cache: the set of catalogue rows present
    history,      \* watch_history rows of the requesting user, table order
    feedback,     \* feedback rows of the requesting user, table order
    overrides,    \* influence_overrides rows of the requesting user
    pc,           \* position of the request being served
    req,          \* the request: mode, limit, filters
    profile,      \* profile built by the request (build_profile result)
    accessible,   \* snapshot of _get_accessible_tmdb_ids
    watched,      \* snapshot of _get_watched_tmdb_ids
    taste,        \* outcome of _build_taste_vector
    refs,         \* the (embedding_id, weight) pairs _build_taste_vector uses
    queried,      \* TRUE once query_similar has been called
    coldStart,    \* TRUE once _cold_start_recommendations has run
    outcome,      \* how the request ended: "none", "list" or an exception
    results,      \* the answer of query_similar
    unsorted,     \* _process_results' candidates before the sort (line 363)
    recs,         \* the list returned to the caller
    log,          \* recommendation_log rows committed
    logWrite,     \* the commit of _log_recommendations: "none", "committed"
                  \* or "rolled_back"
    upserted,     \* TRUE once a cache row was inserted during the request
    sigIn,        \* input of a _compute_signal call
    sigOut,       \* its result
    hashOrder,    \* iteration order of a set of genre names in the
                  \* interpreter process serving the call (string hashing
                  \* is seeded per process)
    first,        \* the profile of an earlier build_profile call, if any
    embCommitted, \* embed_library: cache rows whose committed embedding_id
                  \* is not NULL
    embPending,   \* rows whose embedding_id the session has set but not
                  \* committed
    embStore,     \* document ids upserted to the vector store so far
    embRun        \* the embed_library run: position, items, batch, counters

vars == <<cache, history, feedback, overrides, pc, req, profile, accessible,
          watched, taste, refs, queried, coldStart, outcome, results, unsorted, recs, log, logWrite,
          upserted,
          sigIn, sigOut, hashOrder, first,
          embCommitted, embPending, embStore, embRun>>

dbVars  == <<cache, history, feedback, overrides>>
reqVars == <<pc, req, profile, accessible, watched, taste, refs, queried,
             coldStart, outcome, results, unsorted, recs, log, logWrite, upserted>>
sigVars == <<sigIn, sigOut>>
procVars == <<hashOrder, first>>
embVars == <<embCommitted, embPending, embStore, embRun>>

----------------------------------------------------------------------------
(* Bounds of the model *)

MaxHistory == 2      \* watch_history rows of the user
MaxResults == 2      \* documents in one similarity answer
MaxLimit   == 2      \* largest limit requested

----------------------------------------------------------------------------
(* Generic helpers *)

Null == {}
IsNull(x) == x = {}
Val(x) == CHOOSE v \in x : TRUE

Max2(a, b) == IF a >= b THEN a ELSE b
Min2(a, b) == IF a <= b THEN a ELSE b
Abs(a) == IF a < 0 THEN -a ELSE a

SetMax(S) == CHOOSE m \in S : \A x \in S : x <= m

Range(s) == {s[i] : i \in 1..Len(s)}

Take(s, n) == SubSeq(s, 1, Min2(n, Len(s)))

RECURSIVE SumSeq(_)
SumSeq(s) == IF s = <<>> THEN 0 ELSE Head(s) + SumSeq(Tail(s))

\* s restricted to the positions in keep, order preserved
SelectSeq2(s, keep) ==
    LET indexed == [i \in 1..Len(s) |-> <<i, s[i]>>]
        kept == SelectSeq(indexed, LAMBDA e : e[1] \in keep)
    IN  [i \in 1..Len(kept) |-> kept[i][2]]

\* the concatenation of the sequences of ss, by halves
RECURSIVE Concat(_)
Concat(ss) ==
    IF ss = <<>> THEN <<>>
    ELSE IF Len(ss) = 1 THEN ss[1]
    ELSE LET half == Len(ss) \div 2
         IN  Concat(SubSeq(ss, 1, half)) \o Concat(SubSeq(ss, half + 1, Len(ss)))

\* a / b rounded to the nearest integer, halves to even (Python round)
RoundDiv(a, b) ==
    LET q == a \div b
        r == a - q * b
    IN  IF 2 * r < b THEN q
        ELSE IF 2 * r > b THEN q + 1
        ELSE IF q % 2 = 0 THEN q ELSE q + 1

\* sequences over S of length at most n
SeqsUpTo(S, n) == UNION {[1..k -> S] : k \in 0..n}

----------------------------------------------------------------------------
(* Signal model: taste_profiler.py *)

completion_full      == 5
completion_partial   == 2
completion_abandoned == -3
rewatch              == 4
user_rating_high     == 3
user_rating_low      == -2
feedback_up          == 3
feedback_down        == -4
feedback_dismiss     == -1

\* _get_feedback: one dict entry per tmdb_id, a later row replaces an
\* earlier one; the result for one tmdb_id is {} (no entry) or {type}
RECURSIVE GetFeedback(_, _)
GetFeedback(rows, tmdb_id) ==
    IF rows = <<>> THEN Null
    ELSE LET last == rows[Len(rows)]
         IN  IF last.tmdb_id = tmdb_id THEN {last.feedback}
             ELSE GetFeedback(SubSeq(rows, 1, Len(rows) - 1), tmdb_id)

\* the completion branch of _compute_signal
CompletionTerm(completion) ==
    IF completion >= 85 THEN completion_full
    ELSE IF completion >= 40 THEN completion_partial
    ELSE IF completion < 20 /\ completion > 0 THEN completion_abandoned
    ELSE 0

\* the rating branch: "if history.user_rating:" is false for NULL and for 0
RatingTerm(user_rating) ==
    IF IsNull(user_rating) \/ Val(user_rating) = 0 THEN 0
    ELSE IF Val(user_rating) >= 8 THEN user_rating_high
    ELSE IF Val(user_rating) <= 4 THEN user_rating_low
    ELSE 0

FeedbackTerm(fb) ==
    IF fb = {"up"} THEN feedback_up
    ELSE IF fb = {"down"} THEN feedback_down
    ELSE IF fb = {"dismiss"} THEN feedback_dismiss
    ELSE 0

ComputeSignal(h, fb) ==
    CompletionTerm(h.completion_pct)
    + (IF h.watch_count > 1 THEN rewatch ELSE 0)
    + RatingTerm(h.user_rating)
    + FeedbackTerm(fb)

\* round(1000 * exp(-0.693 * d / 90)) for the days d from FirstDecayDay on
FirstDecayDay == -20

DecayTable == <<
      1166, 1158, 1149, 1140, 1131, 1122, 1114, 1105, 1097, 1088, 1080, 1072,
      1064, 1055, 1047, 1039, 1031, 1023, 1016, 1008, 1000, 992, 985, 977,
      970, 962, 955, 948, 940, 933, 926, 919, 912, 905, 898, 891,
      884, 877, 871, 864, 857, 851, 844, 838, 831, 825, 819, 812,
      806, 800, 794, 788, 782, 776, 770, 764, 758, 752, 746, 741,
      735, 729, 724, 718, 713, 707, 702, 696, 691, 686, 680, 675,
      670, 665, 660, 655, 650, 645, 640, 635, 630, 625, 620, 616,
      611, 606, 602, 597, 592, 588, 583, 579, 574, 570, 566, 561,
      557, 553, 548, 544, 540, 536, 532, 528, 524, 520, 516, 512,
      508, 504, 500, 496, 492, 489, 485, 481, 477, 474, 470, 467,
      463, 459, 456, 452, 449, 446, 442, 439, 435, 432, 429, 425,
      422, 419, 416, 413, 409, 406, 403, 400, 397 >>

DecayDays == FirstDecayDay..(FirstDecayDay + Len(DecayTable) - 1)

\* _temporal_decay: exp(-0.693 * days_ago / 90) in thousandths, tabulated for
\* the ages the model uses; a missing timestamp gives 0.5
ExpDecay(days_ago) ==
    IF days_ago \in DecayDays THEN DecayTable[days_ago - FirstDecayDay + 1]
    ELSE CASE days_ago = -90 -> 2000
           [] days_ago = 180 -> 250
           [] days_ago = 200 -> 214
           [] days_ago = 400 -> 46

TemporalDecay(watched_at) ==
    IF IsNull(watched_at) THEN 500 ELSE ExpDecay(Val(watched_at))

\* "history.started_at or history.created_at"
WatchedAt(h) == IF IsNull(h.started_at) THEN {h.created_at} ELSE h.started_at

----------------------------------------------------------------------------
(* The metadata cache: rows that tmdb_cache can hold (models/tables.py).    *)
(* Rows 2 and 3 share tmdb_id 2: the table is unique on (tmdb_id,           *)
(* media_type) only.                                                        *)

Catalogue == <<
    [tmdb_id |-> 1, media_type |-> "movie",
     genres |-> <<"Action", "Drama">>, keywords |-> <<"heist">>,
     directors |-> <<"Nolan">>, cast |-> <<"Bale">>,
     vote_average |-> {8}, popularity |-> {50},
     year |-> {2010}, original_language |-> {"en"},
     embedding_id |-> {"movie:1"}],
    [tmdb_id |-> 2, media_type |-> "movie",
     genres |-> <<"Horror">>, keywords |-> <<"gore">>,
     directors |-> <<>>, cast |-> <<>>,
     vote_average |-> {}, popularity |-> {90},
     year |-> {1980}, original_language |-> {"ja"},
     embedding_id |-> {"movie:2"}],
    [tmdb_id |-> 2, media_type |-> "show",
     genres |-> <<>>, keywords |-> <<>>,
     directors |-> <<>>, cast |-> <<"Bale">>,
     vote_average |-> {6}, popularity |-> {},
     year |-> {}, original_language |-> {},
     embedding_id |-> {}] >>

CacheKeys == 1..Len(Catalogue)

\* rows of the cache with a given tmdb_id, as catalogue keys
RowsWithTmdbId(cache_, tmdb_id) ==
    {k \in cache_ : Catalogue[k].tmdb_id = tmdb_id}

\* the keys of a set in increasing order
RECURSIVE SetToSeq(_)
SetToSeq(S) ==
    IF S = {} THEN <<>>
    ELSE LET m == CHOOSE x \in S : \A y \in S : x <= y
         IN  <<m>> \o SetToSeq(S \ {m})

----------------------------------------------------------------------------
(* TasteProfiler: taste_profiler.py *)

DepthDays == 360     \* depth_months = 12, timedelta(days=depth_months * 30)

\* _get_enriched_history without "WatchHistory.created_at >= since"
GetEnrichedHistoryAllTime(hist, cache_) ==
    Concat([n \in 1..Len(hist) |->
        LET h == hist[n]
            keys == SetToSeq({k \in RowsWithTmdbId(cache_, h.tmdb_id) :
                                Catalogue[k].media_type \in {"movie", "show"}})
        IN  [i \in 1..Len(keys) |-> [history |-> h, tmdb |-> Catalogue[keys[i]]]]])

\* _get_enriched_history with domain = None: watch_history joined to
\* tmdb_cache on tmdb_id alone, created_at >= since; the rows in the order
\* of the watch records
GetEnrichedHistory(hist, cache_) ==
    Concat([n \in 1..Len(hist) |->
        LET h == hist[n]
            keys == SetToSeq({k \in RowsWithTmdbId(cache_, h.tmdb_id) :
                                Catalogue[k].media_type \in {"movie", "show"}})
        IN  IF h.created_at <= DepthDays
            THEN [i \in 1..Len(keys) |-> [history |-> h, tmdb |-> Catalogue[keys[i]]]]
            ELSE <<>>])

\* signal * decay of one enriched watch, in thousandths
WeightedSignal(w, fbRows) ==
    ComputeSignal(w.history, GetFeedback(fbRows, w.tmdb.tmdb_id))
        * TemporalDecay(WatchedAt(w.history))

\* occurrences of x in the sequence s
Count(x, s) == Cardinality({i \in 1..Len(s) : s[i] = x})

\* the values f[k] of a pool, empty pool gives {}
Values(f) == {f[k] : k \in DOMAIN f}

\* s sorted by non-increasing key, equal keys keep their order (sorted(...,
\* reverse=True) and list.sort(reverse=True) are stable); k[i] is the key
\* of s[i]
StableSortDesc(s, k) ==
    LET n == Len(s)
        rank(i) == 1 + Cardinality({j \in 1..n :
                          k[j] > k[i] \/ (k[j] = k[i] /\ j < i)})
    IN  [p \in 1..n |-> s[CHOOSE i \in 1..n : rank(i) = p]]

\* first occurrences of the elements of s, in order (dict insertion order)
RECURSIVE Dedupe(_)
Dedupe(s) ==
    IF s = <<>> THEN <<>>
    ELSE LET front == Dedupe(SubSeq(s, 1, Len(s) - 1))
             last  == s[Len(s)]
         IN  IF last \in Range(front) THEN front ELSE Append(front, last)

KeywordCap   == 10   \* kw_list[:10]
CastCap      == 3    \* cc.get("cast", [])[:3]
PersonnelTop == 50   \* personnel_affinities: [:50]
KeywordTop   == 30   \* keyword_affinities: [:30]
AntiKeywordTop == 15 \* anti_profile keywords: [:15]
PoolFloor    == 10000  \* the 1.0 floor of max_genre, in ten-thousandths
DefaultModifier == 300 \* "weight_modifier or 0.3"
AntiGenreThreshold == -300  \* s < -0.3

\* the accumulation loop of build_profile (lines 108-150) for the enriched
\* watches, sig[i] being the weighted signal of watches[i]; pools are
\* functions from the keys they hold to ten-thousandths
PoolsOf(watches, sig) ==
    LET n == Len(watches)
        genres(i) == watches[i].tmdb.genres
        kws(i) == Take(watches[i].tmdb.keywords, KeywordCap)
        dirs(i) == watches[i].tmdb.directors
        cast(i) == Take(watches[i].tmdb.cast, CastCap)
        posIdx == {i \in 1..n : sig[i] > 0}
        negIdx == {i \in 1..n : ~(sig[i] > 0)}
        genreKeys(I) == UNION {Range(genres(i)) : i \in I}
        kwKeys(I) == UNION {Range(kws(i)) : i \in I}
        kwOrder(I) == Dedupe(Concat([i \in 1..n |->
                          IF i \in I THEN kws(i) ELSE <<>>]))
    IN  [genre_scores |->
            [g \in genreKeys(posIdx) |-> SumSeq([i \in 1..n |->
                IF i \in posIdx THEN sig[i] * 10 * Count(g, genres(i)) ELSE 0])],
         anti_genres |->
            [g \in genreKeys(negIdx) |-> SumSeq([i \in 1..n |->
                IF i \in negIdx THEN Abs(sig[i]) * 10 * Count(g, genres(i)) ELSE 0])],
         keyword_scores |->
            [k \in kwKeys(posIdx) |-> SumSeq([i \in 1..n |->
                IF i \in posIdx THEN sig[i] * 5 * Count(k, kws(i)) ELSE 0])],
         anti_keywords |->
            [k \in kwKeys(negIdx) |-> SumSeq([i \in 1..n |->
                IF i \in negIdx THEN Abs(sig[i]) * 5 * Count(k, kws(i)) ELSE 0])],
         personnel_scores |->
            [p \in UNION {Range(dirs(i)) \cup Range(cast(i)) : i \in 1..n} |->
                SumSeq([i \in 1..n |-> sig[i] * 10 * Count(p, dirs(i))
                                       + sig[i] * 3 * Count(p, cast(i))])],
         personnel_order |-> Dedupe(Concat([i \in 1..n |-> dirs(i) \o cast(i)])),
         keyword_order |-> kwOrder(posIdx),
         anti_keyword_order |-> kwOrder(negIdx),
         total_signal |-> SumSeq([i \in 1..n |-> Abs(sig[i])]),
         total_completion |->
            SumSeq([i \in 1..n |-> watches[i].history.completion_pct])]

Pools(watches, fbRows) ==
    PoolsOf(watches, [i \in 1..Len(watches) |-> WeightedSignal(watches[i], fbRows)])

\* ApplyOverride without the min(1.0, ...) / max(-1.0, ...) of lines 166-171
ApplyOverrideUnclamped(aff, o) ==
    IF o.influence_type = "genre" /\ o.influence_key \in DOMAIN aff
    THEN LET w == IF IsNull(o.weight_modifier) \/ Val(o.weight_modifier) = 0
                  THEN DefaultModifier ELSE Val(o.weight_modifier)
             cur == aff[o.influence_key]
             new == CASE o.action = "boost"    -> cur + w
                      [] o.action = "suppress" -> cur - w
                      [] o.action = "block"    -> -1000
                      [] OTHER                 -> cur
         IN  [aff EXCEPT ![o.influence_key] = new]
    ELSE aff

\* one override applied to the genre affinities (lines 165-175)
ApplyOverride(aff, o) ==
    IF o.influence_type = "genre" /\ o.influence_key \in DOMAIN aff
    THEN LET w == IF IsNull(o.weight_modifier) \/ Val(o.weight_modifier) = 0
                  THEN DefaultModifier ELSE Val(o.weight_modifier)
             cur == aff[o.influence_key]
             new == CASE o.action = "boost"    -> Min2(1000, cur + w)
                      [] o.action = "suppress" -> Max2(-1000, cur - w)
                      [] o.action = "block"    -> -1000
                      [] OTHER                 -> cur
         IN  [aff EXCEPT ![o.influence_key] = new]
    ELSE aff

RECURSIVE ApplyOverrides(_, _)
ApplyOverrides(aff, ovs) ==
    IF ovs = <<>> THEN aff
    ELSE ApplyOverrides(ApplyOverride(aff, Head(ovs)), Tail(ovs))

\* the keys of order, sorted by |score| descending (stable), first n
TopByAbs(order, score, n) ==
    Take(StableSortDesc(order, [i \in 1..Len(order) |-> Abs(score[order[i]])]), n)

\* the divisor of the genre pool (lines 153-154)
MaxGenre(genre_scores, anti_genres) ==
    Max2(Max2(IF DOMAIN genre_scores # {} THEN SetMax(Values(genre_scores))
              ELSE PoolFloor,
              IF DOMAIN anti_genres # {} THEN SetMax(Values(anti_genres))
              ELSE PoolFloor),
         PoolFloor)

\* the divisor of the personnel and keyword pools (lines 178, 185)
MaxAbs(scores) ==
    IF DOMAIN scores # {} THEN SetMax({Abs(v) : v \in Values(scores)})
    ELSE PoolFloor

EmptyMap == [x \in {} |-> 0]

\* _empty_profile
EmptyProfile ==
    [exception |-> "none",
     genre_affinities |-> EmptyMap,
     personnel_affinities |-> EmptyMap,
     keyword_affinities |-> EmptyMap,
     anti_profile |-> [genres |-> <<>>, keywords |-> {}],
     stats |-> [total_watches |-> 0, avg_completion |-> 0,
                total_signal_strength |-> 0]]

\* what build_profile gives when a division raises ZeroDivisionError
RaisedProfile(e) == [EmptyProfile EXCEPT !.exception = e]

\* the genre affinities before the overrides (lines 153-161)
GenreAffinities(P) ==
    [g \in DOMAIN P.genre_scores \cup DOMAIN P.anti_genres |->
        RoundDiv(1000 * ((IF g \in DOMAIN P.genre_scores THEN P.genre_scores[g] ELSE 0)
                         - (IF g \in DOMAIN P.anti_genres THEN P.anti_genres[g] ELSE 0)),
                 MaxGenre(P.genre_scores, P.anti_genres))]

\* scores[k] / max_score for the keys kept, rounded to thousandths; Python
\* raises ZeroDivisionError when max_score is 0 and a key is kept
Normalise(scores, keys, max_score) ==
    IF keys # {} /\ max_score = 0
    THEN [exception |-> "ZeroDivisionError", value |-> EmptyMap]
    ELSE [exception |-> "none",
          value |-> [k \in keys |-> RoundDiv(1000 * scores[k], max_score)]]

\* the anti-profile keywords (lines 194-197)
AntiKeywords(P) ==
    LET top == Take(StableSortDesc(P.anti_keyword_order,
                        [i \in 1..Len(P.anti_keyword_order) |->
                            P.anti_keywords[P.anti_keyword_order[i]]]),
                    AntiKeywordTop)
    IN  {k \in Range(top) : P.anti_keywords[k] > 0}

\* anti_profile["genres"] (line 193): the genres below -0.3 in the order of
\* genre_affinities, which is the order the loop of line 158 iterates the
\* set all_genres in
AntiGenres(genre_affinities, order) ==
    SelectSeq(order, LAMBDA g : /\ g \in DOMAIN genre_affinities
                                /\ genre_affinities[g] < AntiGenreThreshold)

\* the dictionary build_profile returns (lines 191-214), or the exception
\* of a normalisation; order is the iteration order of sets of genre names
ProfileRecord(P, genre_affinities, personnel_affinities, keyword_affinities, total_watches, order) ==
    IF personnel_affinities.exception # "none"
       \/ keyword_affinities.exception # "none"
    THEN RaisedProfile("ZeroDivisionError")
    ELSE [exception |-> "none",
          genre_affinities |-> genre_affinities,
          personnel_affinities |-> personnel_affinities.value,
          keyword_affinities |-> keyword_affinities.value,
          anti_profile |->
             [genres |-> AntiGenres(genre_affinities, order),
              keywords |-> AntiKeywords(P)],
          stats |->
             [total_watches |-> total_watches,
              avg_completion |-> RoundDiv(10 * P.total_completion, total_watches),
              total_signal_strength |-> RoundDiv(P.total_signal, 100)]]

\* lines 152-214 of build_profile for the pools P
ProfileOf(P, ovs, total_watches, order) ==
    ProfileRecord(P,
        ApplyOverrides(GenreAffinities(P), ovs),
        Normalise(P.personnel_scores,
                  Range(TopByAbs(P.personnel_order, P.personnel_scores, PersonnelTop)),
                  MaxAbs(P.personnel_scores)),
        Normalise(P.keyword_scores,
                  Range(TopByAbs(P.keyword_order, P.keyword_scores, KeywordTop)),
                  MaxAbs(P.keyword_scores)),
        total_watches, order)

\* the part of build_profile after the history query
ProfileOfWatches(watches, fbRows, ovs, order) ==
    IF watches = <<>> THEN EmptyProfile
    ELSE ProfileOf(Pools(watches, fbRows), ovs, Len(watches), order)

\* build_profile(user_id): depth_months = 12, domain = None
BuildProfile(hist, cache_, fbRows, ovs, order) ==
    ProfileOfWatches(GetEnrichedHistory(hist, cache_), fbRows, ovs, order)

\* build_taste_embedding: (embedding_id, weight) of the watches that have an
\* embedding_id and a positive weight, in history order
BuildTasteEmbedding(hist, cache_, fbRows) ==
    LET watches == GetEnrichedHistory(hist, cache_)
        keep == {i \in 1..Len(watches) :
                    /\ ~IsNull(watches[i].tmdb.embedding_id)
                    /\ WeightedSignal(watches[i], fbRows) > 0}
        kept == SelectSeq2(watches, keep)
    IN  [i \in 1..Len(kept) |->
            [embedding_id |-> Val(kept[i].tmdb.embedding_id),
             weight |-> WeightedSignal(kept[i], fbRows)]]

----------------------------------------------------------------------------
(* RecommendationEngine: recommender.py *)

\* _get_accessible_tmdb_ids restricted to the rows of a movie section
GetAccessibleTmdbIdsMovies(cache_) ==
    {Catalogue[k].tmdb_id : k \in {j \in cache_ : Catalogue[j].media_type = "movie"}}

\* _get_accessible_tmdb_ids: both branches return every cached tmdb_id
GetAccessibleTmdbIds(cache_) == {Catalogue[k].tmdb_id : k \in cache_}

WatchedThreshold == 40

\* _get_watched_tmdb_ids that counts only a watch completed to the end
GetWatchedTmdbIdsFinishedOnly(hist) ==
    {hist[i].tmdb_id : i \in {j \in 1..Len(hist) : hist[j].completion_pct >= 100}}

\* _get_watched_tmdb_ids
GetWatchedTmdbIds(hist) ==
    {hist[i].tmdb_id : i \in {j \in 1..Len(hist) :
                                hist[j].completion_pct >= WatchedThreshold}}

\* _genre_boost as the pair (sum of the affinities, number of genres); the
\* boost is sum / count thousandths, and 0 when count is 0
GenreBoost(tmdb, prof) ==
    IF tmdb.genres = <<>> \/ DOMAIN prof.genre_affinities = {}
    THEN [sum |-> 0, count |-> 0]
    ELSE [sum |-> SumSeq([i \in 1..Len(tmdb.genres) |->
                     IF tmdb.genres[i] \in DOMAIN prof.genre_affinities
                     THEN prof.genre_affinities[tmdb.genres[i]] ELSE 0]),
          count |-> Len(tmdb.genres)]

\* _anti_penalty in tenths
AntiPenalty(tmdb, prof) ==
    Min2(3 * Cardinality({i \in 1..Len(tmdb.genres) :
                             tmdb.genres[i] \in Range(prof.anti_profile.genres)})
         + Cardinality({i \in 1..Len(tmdb.keywords) :
                             tmdb.keywords[i] \in prof.anti_profile.keywords}),
         10)

\* "score = max(0.0, min(1.0, score))" in ten-thousandths
Clamp(score) == Max2(0, Min2(10000, score))

\* the combined score of line 357 in ten-thousandths, before the clamp:
\* similarity*0.6 + genre_boost*0.25 + pop_factor*0.05 - anti_penalty*0.10
CombinedScore(similarity, gb, vote, anti) ==
    LET d == 2 * Max2(gb.count, 1)
    IN  RoundDiv((6 * similarity + 5 * vote - 100 * anti) * d + 5 * gb.sum, d)

NoFilters ==
    [genres |-> {}, exclude_genres |-> {}, year_min |-> {}, year_max |-> {},
     language |-> {}]

\* _passes_filters; a filter that is not supplied is {}
PassesFilters(tmdb, filters) ==
    /\ (~IsNull(filters.genres) /\ tmdb.genres # <<>>)
            => (Val(filters.genres) \cap Range(tmdb.genres) # {})
    /\ (~IsNull(filters.exclude_genres) /\ tmdb.genres # <<>>)
            => (Val(filters.exclude_genres) \cap Range(tmdb.genres) = {})
    /\ (~IsNull(filters.year_min) /\ ~IsNull(tmdb.year) /\ Val(tmdb.year) # 0)
            => Val(tmdb.year) >= Val(filters.year_min)
    /\ (~IsNull(filters.year_max) /\ ~IsNull(tmdb.year) /\ Val(tmdb.year) # 0)
            => Val(tmdb.year) <= Val(filters.year_max)
    /\ (~IsNull(filters.language) /\ ~IsNull(tmdb.original_language))
            => tmdb.original_language = filters.language

\* _tmdb_to_recommendation that does not pass in_library on, so that the
\* field keeps one value for every item
TmdbToRecommendationFlagDropped(tmdb, score, in_library) ==
    [tmdb_id |-> tmdb.tmdb_id, media_type |-> tmdb.media_type,
     genres |-> tmdb.genres, score |-> score, explanation |-> "",
     signals |-> EmptyMap, mode |-> "", in_library |-> FALSE]

\* _tmdb_to_recommendation; score is already in ten-thousandths, which is
\* what round(score, 4) keeps
TmdbToRecommendation(tmdb, score, in_library) ==
    [tmdb_id |-> tmdb.tmdb_id, media_type |-> tmdb.media_type,
     genres |-> tmdb.genres, score |-> score, explanation |-> "",
     signals |-> EmptyMap, mode |-> "", in_library |-> in_library]

\* the vote_average used by the popularity factor: 0 when NULL or 0
VoteOrZero(tmdb) == IF IsNull(tmdb.vote_average) THEN 0 ELSE Val(tmdb.vote_average)

\* the body of the loop of _process_results for one result; lookup[t] is the
\* row that "select ... where tmdb_id = t limit 1" returned, 0 for none.
\* The result is <<>> (skipped) or <<rec>>.
ProcessOne(doc, accessible_tmdb_ids, exclude_tmdb_ids, in_library_only, prof, filters, lookup) ==
    IF IsNull(doc.tmdb_id) \/ Val(doc.tmdb_id) = 0 THEN <<>>
    ELSE
    LET tmdb_id == Val(doc.tmdb_id)
        in_lib == tmdb_id \in accessible_tmdb_ids
        similarity == Max2(0, 1000 - doc.distance)
    IN  IF tmdb_id \in exclude_tmdb_ids THEN <<>>
        ELSE IF in_library_only /\ ~in_lib THEN <<>>
        ELSE IF lookup[tmdb_id] = 0 THEN <<>>
        ELSE
        LET tmdb_cache == Catalogue[lookup[tmdb_id]]
            gb == GenreBoost(tmdb_cache, prof)
            anti == AntiPenalty(tmdb_cache, prof)
            vote == VoteOrZero(tmdb_cache)
            score == Clamp(CombinedScore(similarity, gb, vote, anti))
        IN  IF filters # NoFilters /\ ~PassesFilters(tmdb_cache, filters)
            THEN <<>>
            ELSE <<[TmdbToRecommendation(tmdb_cache, score, in_lib)
                      EXCEPT !.signals =
                        [similarity |-> similarity * 10,
                         genre_boost |-> RoundDiv(10 * gb.sum, Max2(gb.count, 1)),
                         anti_penalty |-> anti * 1000,
                         popularity_factor |-> vote * 100]]>>

\* the loop of _process_results (lines 318-362): the candidates in the
\* order of the similarity answer
ProcessLoop(chroma_results, accessible_tmdb_ids, exclude_tmdb_ids, in_library_only, prof, filters, lookup) ==
    Concat([i \in 1..Len(chroma_results) |->
                ProcessOne(chroma_results[i], accessible_tmdb_ids, exclude_tmdb_ids,
                           in_library_only, prof, filters, lookup)])

\* candidates.sort(key=lambda r: r.score, reverse=True) with the elements
\* of equal score in reverse order, as sorted(...)[::-1] would give
SortByScoreReversed(list) ==
    LET n == Len(list)
        rev == [i \in 1..n |-> list[n + 1 - i]]
    IN  StableSortDesc(rev, [i \in 1..n |-> rev[i].score])

\* candidates.sort(key=lambda r: r.score, reverse=True) (line 365): Python's
\* sort is stable, reverse included
SortByScore(list) ==
    StableSortDesc(list, [i \in 1..Len(list) |-> list[i].score])

\* _process_results: the candidates, sorted by score descending (stable)
ProcessResults(chroma_results, accessible_tmdb_ids, exclude_tmdb_ids, in_library_only, prof, filters, lookup) ==
    SortByScore(ProcessLoop(chroma_results, accessible_tmdb_ids, exclude_tmdb_ids,
                            in_library_only, prof, filters, lookup))

\* popularity as a sort key of "ORDER BY popularity DESC": PostgreSQL puts
\* NULL first in descending order
PopularityKey(tmdb) ==
    IF IsNull(tmdb.popularity) THEN 1000000 ELSE Val(tmdb.popularity)

\* _cold_start_recommendations without "TmdbCache.vote_average.isnot(None)"
ColdStartRecommendationsAnyVote(cache_, limit, filters) ==
    LET keys == SetToSeq(cache_)
        sorted == StableSortDesc(keys,
                      [i \in 1..Len(keys) |-> PopularityKey(Catalogue[keys[i]])])
        items == Take(sorted, limit * 3)
        keep == {i \in 1..Len(items) :
                    ~(filters # NoFilters
                      /\ ~PassesFilters(Catalogue[items[i]], filters))}
        passing == SelectSeq2(items, keep)
    IN  [i \in 1..Min2(limit, Len(passing)) |->
            [TmdbToRecommendation(Catalogue[passing[i]], 5000, TRUE)
                EXCEPT !.explanation = "popular",
                       !.mode = "tonight",
                       !.signals = [method |-> "cold_start_popularity"]]]

\* _cold_start_recommendations
ColdStartRecommendations(cache_, limit, filters) ==
    LET keys == SetToSeq({k \in cache_ : ~IsNull(Catalogue[k].vote_average)})
        sorted == StableSortDesc(keys,
                      [i \in 1..Len(keys) |-> PopularityKey(Catalogue[keys[i]])])
        items == Take(sorted, limit * 3)
        keep == {i \in 1..Len(items) :
                    ~(filters # NoFilters
                      /\ ~PassesFilters(Catalogue[items[i]], filters))}
        passing == SelectSeq2(items, keep)
    IN  [i \in 1..Min2(limit, Len(passing)) |->
            [TmdbToRecommendation(Catalogue[passing[i]], 5000, TRUE)
                EXCEPT !.explanation = "popular",
                       !.mode = "tonight",
                       !.signals = [method |-> "cold_start_popularity"]]]

RediscoverCompletion == 70
RediscoverDays == 180
RediscoverSignal == 3

\* the rows of recommend_rediscover's query: watch_history joined to
\* tmdb_cache on tmdb_id, completion_pct >= 70, oldest created_at first
RediscoverRows(hist, cache_) ==
    LET joined == Concat([i \in 1..Len(hist) |->
                    LET keys == SetToSeq(RowsWithTmdbId(cache_, hist[i].tmdb_id))
                    IN  IF hist[i].completion_pct >= RediscoverCompletion
                        THEN [j \in 1..Len(keys) |->
                                 [history |-> hist[i], tmdb |-> Catalogue[keys[j]]]]
                        ELSE <<>>])
    IN  StableSortDesc(joined, [i \in 1..Len(joined) |-> joined[i].history.created_at])

\* str(watched_at) of line 212: the columns are DateTime(timezone=True), the
\* driver returns aware datetimes and their str() ends with the UTC offset;
\* age is the number of days from the timestamp to now
StrOfTimestamp(watched_at) == [age |-> Val(watched_at), utcoffset |-> TRUE]

\* lines 200-217 of recommend_rediscover: the selection loop, the sort and
\* the truncation
RediscoverLoop(rows, limit) ==
    LET one(r) ==
            LET watched_at == WatchedAt(r.history)
                signal == ComputeSignal(r.history, Null)
            IN  IF Val(watched_at) < RediscoverDays THEN <<>>
                ELSE IF signal < RediscoverSignal THEN <<>>
                ELSE <<[TmdbToRecommendation(r.tmdb, signal * 1000, TRUE)
                          EXCEPT !.signals = [original_signal |-> signal,
                                              last_watched |-> StrOfTimestamp(watched_at)]]>>
        candidates == Concat([i \in 1..Len(rows) |-> one(rows[i])])
        sorted == StableSortDesc(candidates,
                      [i \in 1..Len(candidates) |-> candidates[i].score])
    IN  Take(sorted, limit)

\* the names bound in recommender.py's module namespace (lines 12-26, 29, 52)
RecommenderGlobals ==
    {"logging", "dataclass", "Optional", "select", "and_", "not_",
     "AsyncSession", "TmdbCache", "WatchHistory", "UserLibraryAccess",
     "RecommendationLog", "Feedback", "EmbeddingService", "TasteProfiler",
     "ExplanationEngine", "logger", "Recommendation", "RecommendationEngine"}

\* the names a function body binds with an import statement are local to the
\* whole body; recommend_rediscover binds timedelta (line 179) and timezone
\* (line 198)
RediscoverLocals == <<[name |-> "timedelta", line |-> 179],
                      [name |-> "timezone", line |-> 198]>>

\* evaluating a name at a line of recommend_rediscover: "ok", or the
\* exception Python raises
ResolveName(name, line) ==
    LET binds == {i \in 1..Len(RediscoverLocals) : RediscoverLocals[i].name = name}
    IN  IF binds # {}
        THEN IF \E i \in binds : RediscoverLocals[i].line < line
             THEN "ok" ELSE "UnboundLocalError"
        ELSE IF name \in RecommenderGlobals THEN "ok" ELSE "NameError"

\* line 197: six_months_ago = datetime.now(timezone.utc) - timedelta(days=180)
\* evaluates datetime, then timezone, then timedelta
CutoffLine ==
    LET names == <<"datetime", "timezone", "timedelta">>
        bad == {i \in 1..3 : ResolveName(names[i], 197) # "ok"}
    IN  IF bad = {} THEN "ok"
        ELSE ResolveName(names[CHOOSE i \in bad : \A j \in bad : i <= j], 197)

----------------------------------------------------------------------------
(* ExplanationEngine: explanations.py.  An explanation is modelled by the
   template category _pick draws it from; signals are in ten-thousandths,
   affinities in thousandths. *)

MultiSignalBoost == 2000     \* genre_boost > 0.2
PersonnelDominant == 500     \* personnel affinity > 0.5
GenreDominant == 1500        \* genre_boost > 0.15
HighSimilarity == 6000       \* similarity > 0.6
PersonnelMatchMin == 400     \* _find_personnel_match: score > 0.4
ThemeMatchMin == 300         \* _find_theme_match: score > 0.3

\* signals.get(key, 0)
SignalGet(signals, key) == IF key \in DOMAIN signals THEN signals[key] ELSE 0

\* _find_personnel_match: the affinity of the first name of
\* personnel_affinities with score > 0.4, Null when there is none.  The
\* dictionary is in the order build_profile inserted it, by decreasing
\* absolute value, so the first score above 0.4 is the largest one.
FindPersonnelMatch(prof) ==
    LET affinities == prof.personnel_affinities
        hits == {affinities[n] : n \in {m \in DOMAIN affinities :
                                            affinities[m] > PersonnelMatchMin}}
    IN  IF hits = {} THEN Null ELSE {SetMax(hits)}

\* _find_theme_match is not None: some keyword affinity is above 0.3
FindThemeMatch(prof) ==
    \E kw \in DOMAIN prof.keyword_affinities :
        prof.keyword_affinities[kw] > ThemeMatchMin

\* explain with the genre rule tried before the personnel rules
ExplainGenreFirst(rec, prof, mode) ==
    LET signals == rec.signals
        genre_boost == SignalGet(signals, "genre_boost")
        similarity == SignalGet(signals, "similarity")
        personnel_match == FindPersonnelMatch(prof)
    IN  IF (IF mode # "" THEN mode ELSE rec.mode) = "rediscover" THEN "rediscover"
        ELSE IF "method" \in DOMAIN signals /\ signals.method = "cold_start_popularity"
        THEN "popular"
        ELSE IF genre_boost > GenreDominant THEN "genre_match"
        ELSE IF genre_boost > MultiSignalBoost /\ ~IsNull(personnel_match)
        THEN "multi_signal"
        ELSE IF ~IsNull(personnel_match) /\ Val(personnel_match) > PersonnelDominant
        THEN "director_match"
        ELSE IF FindThemeMatch(prof) THEN "theme_match"
        ELSE IF similarity > HighSimilarity THEN "similar_vibe"
        ELSE IF genre_boost > 0 THEN "genre_match"
        ELSE "similar_vibe"

\* explain (lines 125-179): the category of the template it picks; mode ""
\* is the argument left out, which "mode or rec.mode" replaces by rec.mode;
\* _find_personnel_match always answers type "director"
Explain(rec, prof, mode) ==
    LET signals == rec.signals
        genre_boost == SignalGet(signals, "genre_boost")
        similarity == SignalGet(signals, "similarity")
        personnel_match == FindPersonnelMatch(prof)
    IN  IF (IF mode # "" THEN mode ELSE rec.mode) = "rediscover" THEN "rediscover"
        ELSE IF "method" \in DOMAIN signals /\ signals.method = "cold_start_popularity"
        THEN "popular"
        ELSE IF genre_boost > MultiSignalBoost /\ ~IsNull(personnel_match)
        THEN "multi_signal"
        ELSE IF ~IsNull(personnel_match) /\ Val(personnel_match) > PersonnelDominant
        THEN "director_match"
        ELSE IF genre_boost > GenreDominant THEN "genre_match"
        ELSE IF FindThemeMatch(prof) THEN "theme_match"
        ELSE IF similarity > HighSimilarity THEN "similar_vibe"
        ELSE IF genre_boost > 0 THEN "genre_match"
        ELSE "similar_vibe"

\* "rec.explanation = self.explainer.explain(rec, profile)" and
\* "rec.mode = mode" for the returned list; explainMode is the mode argument
\* of explain, which only recommend_rediscover passes ("" is rec.mode)
Finish(list, mode, prof, explainMode) ==
    [i \in 1..Len(list) |->
        [list[i] EXCEPT !.mode = mode,
                        !.explanation = Explain(list[i], prof, explainMode)]]

\* the rows _log_recommendations adds
LogRows(list) ==
    [i \in 1..Len(list) |->
        [tmdb_id |-> list[i].tmdb_id, media_type |-> list[i].media_type,
         mode |-> list[i].mode, score |-> list[i].score]]

----------------------------------------------------------------------------
(* Inputs *)

WatchRow(tmdb_id, completion_pct, watch_count, user_rating, started_at, created_at) ==
    [tmdb_id |-> tmdb_id, completion_pct |-> completion_pct,
     watch_count |-> watch_count, user_rating |-> user_rating,
     started_at |-> started_at, created_at |-> created_at]

\* watch rows of the requests' histories
RequestWatchDomain ==
    {WatchRow(1, 90, 1, Null, Null, 0), WatchRow(1, 30, 1, Null, Null, 0),
     WatchRow(2, 90, 1, Null, Null, 0), WatchRow(2, 10, 1, Null, Null, 0),
     WatchRow(1, 90, 2, {9}, Null, 200)}

\* documents of the vector store: id, metadata tmdb_id, distance to the query
DocDomain ==
    {[id |-> "movie:1", tmdb_id |-> {1}, distance |-> -1000],
     [id |-> "movie:2", tmdb_id |-> {2}, distance |-> 1500],
     [id |-> "show:2", tmdb_id |-> {2}, distance |-> 900],
     [id |-> "movie:3", tmdb_id |-> {3}, distance |-> 300]}

DocTmdbIds == {1, 2, 3}

\* answers of the vector store to one query: distinct documents
QueryAnswers(n_results) ==
    {r \in SeqsUpTo(DocDomain, Min2(n_results, MaxResults)) :
        \A i, j \in 1..Len(r) : i # j => r[i].id # r[j].id}

\* the possible answers of "select(TmdbCache).where(tmdb_id == t).limit(1)"
Lookups(cache_) ==
    {l \in [DocTmdbIds -> {0} \cup CacheKeys] :
        \A t \in DocTmdbIds :
            IF RowsWithTmdbId(cache_, t) = {} THEN l[t] = 0
            ELSE l[t] \in RowsWithTmdbId(cache_, t)}

\* a request that supplies every filter
AllFilters ==
    [genres |-> {{"Action"}}, exclude_genres |-> {{"Horror"}},
     year_min |-> {2000}, year_max |-> {2020}, language |-> {"en"}]

\* the filter sets of the requests: none supplied, or all of them
FilterDomain == {NoFilters, AllFilters}

\* no embed_library run
NoEmbedRun ==
    /\ embCommitted = {}
    /\ embPending = {}
    /\ embStore = {}
    /\ embRun = [pc |-> "none"]

\* the genre names of the catalogue
GenreNames == UNION {Range(Catalogue[k].genres) : k \in CacheKeys}

\* the orders in which a process can iterate a set of genre names
HashOrders ==
    {o \in [1..Cardinality(GenreNames) -> GenreNames] : Range(o) = GenreNames}

\* the order of the process that serves the requests
RequestHashOrder == <<"Action", "Drama", "Horror">>

IdleRequest ==
    /\ pc = "idle"
    /\ first = Null
    /\ NoEmbedRun
    /\ req = [mode |-> "", limit |-> 0, filters |-> NoFilters]
    /\ profile = EmptyProfile
    /\ accessible = {}
    /\ watched = {}
    /\ taste = "unset"
    /\ refs = <<>>
    /\ queried = FALSE
    /\ coldStart = FALSE
    /\ outcome = "none"
    /\ results = <<>>
    /\ unsorted = <<>>
    /\ recs = <<>>
    /\ log = <<>>
    /\ logWrite = "none"
    /\ upserted = FALSE

NoSignalCall ==
    /\ sigIn = [completion_pct |-> 0, watch_count |-> 1, user_rating |-> Null,
                fb |-> Null]
    /\ sigOut = Null

Init ==
    /\ cache \in SUBSET CacheKeys
    /\ history \in SeqsUpTo(RequestWatchDomain, MaxHistory)
    /\ feedback = <<>>
    /\ overrides = <<>>
    /\ hashOrder = RequestHashOrder
    /\ IdleRequest
    /\ NoSignalCall

----------------------------------------------------------------------------
(* Requests *)

\* the request ends by returning list
Return(list) ==
    /\ pc' = "done"
    /\ outcome' = "list"
    /\ recs' = list

\* the request ends with the exception e reaching the caller
Raise(e) ==
    /\ pc' = "done"
    /\ outcome' = e
    /\ recs' = <<>>

\* recommend_tonight, lines 81-87
RecommendTonight(limit, filters) ==
    /\ pc = "idle"
    /\ req' = [mode |-> "tonight", limit |-> limit, filters |-> filters]
    /\ LET prof == BuildProfile(history, cache, feedback, overrides, hashOrder)
       IN  /\ profile' = prof
           /\ IF prof.exception # "none"
              THEN /\ Raise(prof.exception)
                   /\ UNCHANGED <<procVars, embVars, accessible, watched, coldStart>>
              ELSE IF prof.stats.total_watches = 0
              THEN /\ Return(ColdStartRecommendations(cache, limit, filters))
                   /\ coldStart' = TRUE
                   /\ UNCHANGED <<procVars, embVars, accessible, watched>>
              ELSE /\ pc' = "taste"
                   /\ accessible' = GetAccessibleTmdbIds(cache)
                   /\ watched' = GetWatchedTmdbIds(history)
                   /\ UNCHANGED <<procVars, embVars, coldStart, outcome, recs>>
    /\ UNCHANGED <<procVars, embVars, dbVars, taste, refs, queried, results, unsorted, log, logWrite, upserted, sigVars>>

\* recommend_grab, lines 134-139
RecommendGrab(limit, filters) ==
    /\ pc = "idle"
    /\ req' = [mode |-> "grab", limit |-> limit, filters |-> filters]
    /\ LET prof == BuildProfile(history, cache, feedback, overrides, hashOrder)
       IN  /\ profile' = prof
           /\ IF prof.exception # "none"
              THEN /\ Raise(prof.exception)
                   /\ UNCHANGED <<procVars, embVars, accessible, watched>>
              ELSE IF prof.stats.total_watches = 0
              THEN /\ Return(<<>>)
                   /\ UNCHANGED <<procVars, embVars, accessible, watched>>
              ELSE /\ pc' = "taste"
                   /\ accessible' = GetAccessibleTmdbIds(cache)
                   /\ watched' = GetWatchedTmdbIds(history)
                   /\ UNCHANGED <<procVars, embVars, outcome, recs>>
    /\ UNCHANGED <<procVars, embVars, dbVars, taste, refs, queried, coldStart, results, unsorted, log, logWrite, upserted,
                   sigVars>>

\* recommend_rediscover: the query, build_profile, the cut-off of line 197
\* and, if that line does not raise, the loop
RecommendRediscover(limit) ==
    /\ pc = "idle"
    /\ req' = [mode |-> "rediscover", limit |-> limit, filters |-> NoFilters]
    /\ LET rows == RediscoverRows(history, cache)
           prof == BuildProfile(history, cache, feedback, overrides, hashOrder)
       IN  /\ profile' = prof
           /\ IF prof.exception # "none" THEN Raise(prof.exception)
              ELSE IF CutoffLine # "ok" THEN Raise(CutoffLine)
              ELSE Return(Finish(RediscoverLoop(rows, limit), "rediscover", prof, "rediscover"))
    /\ UNCHANGED <<procVars, embVars, dbVars, accessible, watched, taste, refs, queried, coldStart,
                   results, unsorted, log, logWrite, upserted, sigVars>>

\* the callers of _build_taste_vector if recommend_grab fell back on
\* popularity the way recommend_tonight does
NoVectorFallsBack ==
    /\ Return(ColdStartRecommendations(cache, req.limit, req.filters))
    /\ coldStart' = TRUE

\* what _build_taste_vector's caller does with None (lines 91-92, 142-143)
NoVector ==
    IF req.mode = "tonight"
    THEN /\ Return(ColdStartRecommendations(cache, req.limit, req.filters))
         /\ coldStart' = TRUE
    ELSE /\ Return(<<>>)
         /\ UNCHANGED coldStart

TasteRefCap == 100

\* the references _build_taste_vector resolves: weighted_refs[:100]
\* (lines 238-239)
TasteRefs(weighted_refs) == Take(weighted_refs, TasteRefCap)

\* _build_taste_vector; response is what the vector store does with
\* ensure_collection and the "get" of the embedding ids
BuildTasteVector(response) ==
    /\ pc = "taste"
    /\ LET weighted_refs == BuildTasteEmbedding(history, cache, feedback)
       IN  IF weighted_refs = <<>>
           THEN /\ taste' = "no_refs"
                /\ refs' = <<>>
                /\ NoVector
           ELSE CASE response = "unreachable" ->
                        /\ taste' = "raised"
                        /\ refs' = <<>>
                        /\ Raise("ConnectError")
                        /\ UNCHANGED coldStart
                  [] response = "bad_status" ->
                        /\ taste' = "bad_status"
                        /\ refs' = TasteRefs(weighted_refs)
                        /\ NoVector
                  [] response = "no_embeddings" ->
                        /\ taste' = "no_embeddings"
                        /\ refs' = TasteRefs(weighted_refs)
                        /\ NoVector
                  [] response = "ok" ->
                        /\ taste' = "vector"
                        /\ refs' = TasteRefs(weighted_refs)
                        /\ pc' = "query"
                        /\ UNCHANGED <<procVars, embVars, coldStart, outcome, recs>>
    /\ UNCHANGED <<procVars, embVars, dbVars, req, profile, accessible, watched, queried, results, unsorted,
                   log, logWrite, upserted, sigVars>>

\* query_similar raises (connection failure, raise_for_status)
QuerySimilarFails ==
    /\ pc = "query"
    /\ queried' = TRUE
    /\ Raise("HTTPError")
    /\ UNCHANGED <<procVars, embVars, dbVars, req, profile, accessible, watched, taste, refs, coldStart,
                   results, unsorted, log, logWrite, upserted, sigVars>>

\* lines 158-165 (and 110-117): grab keeps the candidates that are not in
\* the library; the first limit candidates are explained and given the mode
Recommendations(sorted, mode, limit, prof) ==
    LET kept == IF mode = "grab"
                THEN SelectSeq2(sorted, {i \in 1..Len(sorted) : ~sorted[i].in_library})
                ELSE sorted
    IN  Finish(Take(kept, limit), mode, prof, "")

\* _log_recommendations if it let the exception of the commit through
LogRecommendationsRaises(recommendations, commitOk) ==
    IF commitOk
    THEN /\ log' = log \o LogRows(recommendations)
         /\ logWrite' = "committed"
         /\ Return(recommendations)
    ELSE /\ log' = log
         /\ logWrite' = "rolled_back"
         /\ Raise("SQLAlchemyError")

\* _log_recommendations and the return that follows it (lines 119-121,
\* 166-167): the rows are committed, or the commit raises and is rolled back
LogRecommendations(recommendations, commitOk) ==
    /\ log' = IF commitOk THEN log \o LogRows(recommendations) ELSE log
    /\ logWrite' = IF commitOk THEN "committed" ELSE "rolled_back"
    /\ Return(recommendations)

\* query_similar answers; _process_results, the truncation, the
\* explanations and _log_recommendations
QueryAndProcess(answer, lookup, commitOk) ==
    /\ pc = "query"
    /\ queried' = TRUE
    /\ results' = answer
    /\ unsorted' = ProcessLoop(answer, accessible, watched, req.mode = "tonight",
                               profile, req.filters, lookup)
    /\ LogRecommendations(Recommendations(SortByScore(unsorted'), req.mode, req.limit, profile),
                          commitOk)
    /\ UNCHANGED <<procVars, embVars, dbVars, req, profile, accessible, watched, taste, refs, coldStart,
                   upserted, sigVars>>

\* TmdbSyncService._upsert_cache inserts a row while the request is between
\* its snapshot of the accessible ids and its metadata lookups
UpsertCache(k) ==
    /\ pc \in {"taste", "query"}
    /\ ~upserted
    /\ k \notin cache
    /\ cache' = cache \cup {k}
    /\ upserted' = TRUE
    /\ UNCHANGED <<procVars, embVars, history, feedback, overrides, pc, req, profile, accessible,
                   watched, taste, refs, queried, coldStart, outcome, results, unsorted, recs,
                   log, logWrite, sigVars>>

Limits == 1..MaxLimit

Next ==
    \/ \E limit \in Limits, filters \in FilterDomain : RecommendTonight(limit, filters)
    \/ \E limit \in Limits, filters \in FilterDomain : RecommendGrab(limit, filters)
    \/ \E limit \in Limits : RecommendRediscover(limit)
    \/ \E response \in {"unreachable", "bad_status", "no_embeddings", "ok"} :
            BuildTasteVector(response)
    \/ QuerySimilarFails
    \/ /\ pc = "query"
       /\ \E answer \in QueryAnswers(Min2(req.limit * (IF req.mode = "grab" THEN 10 ELSE 5),
                                          IF req.mode = "grab" THEN 500 ELSE 200)),
             lookup \in Lookups(cache), commitOk \in BOOLEAN :
               QueryAndProcess(answer, lookup, commitOk)
    \/ \E k \in CacheKeys : UpsertCache(k)

Spec == Init /\ [][Next]_vars

----------------------------------------------------------------------------
(* _compute_signal on its own *)

SignalCompletions == {0, 10, 19, 20, 39, 40, 84, 85, 90, 100}
SignalWatchCounts == {1, 2, 3}
SignalRatings == {Null} \cup {{r} : r \in 0..10}
SignalFeedback == {Null, {"up"}, {"down"}, {"dismiss"}}

InitSignal ==
    /\ cache = {}
    /\ history = <<>>
    /\ feedback = <<>>
    /\ overrides = <<>>
    /\ hashOrder = RequestHashOrder
    /\ IdleRequest
    /\ sigIn \in [completion_pct : SignalCompletions,
                  watch_count : SignalWatchCounts,
                  user_rating : SignalRatings,
                  fb : SignalFeedback]
    /\ sigOut = Null

\* one call _compute_signal(history, feedback.get(tmdb_id, {}))
ComputeSignalCall ==
    /\ sigOut = Null
    /\ sigOut' = {ComputeSignal(sigIn, sigIn.fb)}
    /\ UNCHANGED <<procVars, embVars, dbVars, reqVars, sigIn>>

NextSignal == ComputeSignalCall

SpecSignal == InitSignal /\ [][NextSignal]_vars

----------------------------------------------------------------------------
(* build_profile on its own *)

MaxFeedback  == 1    \* feedback rows of the user
MaxOverrides == 1    \* influence_overrides rows of the user

ProfileWatchDomain ==
    {WatchRow(1, 90, 2, Null, Null, 0),  WatchRow(1, 10, 1, Null, Null, 0),
     WatchRow(1, 30, 1, Null, Null, 0),  WatchRow(2, 90, 1, Null, {90}, 0),
     WatchRow(2, 10, 1, {3}, Null, 0),   WatchRow(2, 30, 1, Null, Null, 400)}

FeedbackDomain ==
    {[tmdb_id |-> 1, feedback |-> "down"], [tmdb_id |-> 2, feedback |-> "up"]}

OverrideDomain ==
    {[influence_type |-> "genre", influence_key |-> "Action",
      action |-> "boost", weight_modifier |-> {1000}],
     [influence_type |-> "genre", influence_key |-> "Horror",
      action |-> "suppress", weight_modifier |-> Null],
     [influence_type |-> "genre", influence_key |-> "Drama",
      action |-> "block", weight_modifier |-> Null],
     [influence_type |-> "keyword", influence_key |-> "heist",
      action |-> "block", weight_modifier |-> Null]}

\* influence_overrides is unique on (user_id, influence_type, influence_key)
OverrideLists ==
    {o \in SeqsUpTo(OverrideDomain, MaxOverrides) :
        \A i, j \in 1..Len(o) : i # j =>
            <<o[i].influence_type, o[i].influence_key>>
                # <<o[j].influence_type, o[j].influence_key>>}

InitProfile ==
    /\ cache \in SUBSET CacheKeys
    /\ history \in SeqsUpTo(ProfileWatchDomain, MaxHistory)
    /\ feedback \in SeqsUpTo(FeedbackDomain, MaxFeedback)
    /\ overrides \in OverrideLists
    /\ hashOrder = RequestHashOrder
    /\ IdleRequest
    /\ NoSignalCall

\* one call build_profile(user_id)
BuildProfileCall ==
    /\ pc = "idle"
    /\ LET prof == BuildProfile(history, cache, feedback, overrides, hashOrder)
       IN  /\ profile' = prof
           /\ outcome' = IF prof.exception = "none" THEN "profile" ELSE prof.exception
    /\ pc' = "done"
    /\ UNCHANGED <<procVars, embVars, dbVars, req, accessible, watched, taste, refs, queried, coldStart,
                   results, unsorted, recs, log, logWrite, upserted, sigVars>>

\* a second call build_profile(user_id) on the same rows at the same time,
\* served by a process whose sets of genre names iterate in order
BuildProfileAgain(order) ==
    /\ pc = "done"
    /\ hashOrder' = order
    /\ first' = {profile}
    /\ LET prof == BuildProfile(history, cache, feedback, overrides, order)
       IN  /\ profile' = prof
           /\ outcome' = IF prof.exception = "none" THEN "profile" ELSE prof.exception
    /\ pc' = "again"
    /\ UNCHANGED <<embVars, dbVars, req, accessible, watched, taste, refs, queried, coldStart,
                   results, unsorted, recs, log, logWrite, upserted, sigVars>>

NextProfile ==
    \/ BuildProfileCall
    \/ \E order \in HashOrders : BuildProfileAgain(order)

SpecProfile == InitProfile /\ [][NextProfile]_vars

----------------------------------------------------------------------------
(* Properties *)

Done == pc = "done"
Returned == Done /\ outcome = "list"

\* the cache row a returned item was built from: (tmdb_id, media_type) is
\* unique in tmdb_cache
RowOf(rec) ==
    CHOOSE k \in CacheKeys : /\ Catalogue[k].tmdb_id = rec.tmdb_id
                             /\ Catalogue[k].media_type = rec.media_type

\* the request took the total_watches == 0 branch of recommend_tonight or
\* recommend_grab
EmptyHistoryBranch == profile.exception = "none" /\ profile.stats.total_watches = 0

\* _build_taste_vector returned None
NoTasteVector == taste \in {"no_refs", "bad_status", "no_embeddings"}

C2_AffinitiesInRange ==
    (Done /\ outcome = "profile") =>
        \A m \in {profile.genre_affinities, profile.personnel_affinities,
                  profile.keyword_affinities} :
            \A k \in DOMAIN m : m[k] >= -1000 /\ m[k] <= 1000

\* C2's case: an override applies to a genre of the profile, one affinity
\* is at the upper end of the range and one is negative
C2_Witness ==
    /\ Done /\ outcome = "profile"
    /\ \E i \in 1..Len(overrides) :
            /\ overrides[i].influence_type = "genre"
            /\ overrides[i].influence_key \in DOMAIN profile.genre_affinities
    /\ \E g \in DOMAIN profile.genre_affinities : profile.genre_affinities[g] = 1000
    /\ \E q \in DOMAIN profile.personnel_affinities :
            profile.personnel_affinities[q] < 0

\* C3: build_profile completes and returns a profile for every history
\* joined to metadata: no normalisation divides by zero.
C3_BuildProfileNeverDividesByZero ==
    Done => outcome = "profile"

\* the sum C4 states for one watch record h and feedback fb
StatedSignal(h, fb) ==
    (IF h.completion_pct >= 85 THEN 5
     ELSE IF h.completion_pct >= 40 THEN 2
     ELSE IF h.completion_pct > 0 /\ h.completion_pct < 20 THEN -3
     ELSE 0)
    + (IF h.watch_count > 1 THEN 4 ELSE 0)
    + (IF ~IsNull(h.user_rating) /\ Val(h.user_rating) >= 8 THEN 3
       ELSE IF ~IsNull(h.user_rating) /\ Val(h.user_rating) <= 4 THEN -2
       ELSE 0)
    + (IF fb = {"up"} THEN 3
       ELSE IF fb = {"down"} THEN -4
       ELSE IF fb = {"dismiss"} THEN -1
       ELSE 0)

\* C4: _compute_signal returns exactly the stated sum of the completion
\* term, the rewatch bonus, the rating term (-2.0 for every present rating
\* in 0..4) and the feedback term.
C4_SignalIsStatedSum ==
    ~IsNull(sigOut) => Val(sigOut) = StatedSignal(sigIn, sigIn.fb)

\* the cache rows _cold_start_recommendations can return
RatedRows == {k \in cache : ~IsNull(Catalogue[k].vote_average)}

\* what C5 states of every cold-start item, and that no similarity query ran
ColdStartItems ==
    /\ ~queried
    /\ \A i \in 1..Len(recs) :
            /\ recs[i].score = 5000
            /\ recs[i].in_library
            /\ recs[i].signals = [method |-> "cold_start_popularity"]

\* row a may come before row b in "ORDER BY popularity DESC": a NULL
\* popularity comes before every value
SortsBefore(a, b) ==
    \/ IsNull(Catalogue[a].popularity)
    \/ /\ ~IsNull(Catalogue[b].popularity)
       /\ Val(Catalogue[a].popularity) >= Val(Catalogue[b].popularity)

\* C5 as stated: with an empty enriched history recommend_tonight(limit = n)
\* returns exactly n items whenever the cache holds at least n rows, in
\* descending popularity order, each with score 0.5, in_library true and
\* method cold_start_popularity, and runs no similarity query.
C5_ColdStartReturnsExactlyN ==
    (Returned /\ req.mode = "tonight" /\ EmptyHistoryBranch
     /\ Cardinality(cache) >= req.limit) =>
        /\ ColdStartItems
        /\ Len(recs) = req.limit
        /\ \A i, j \in 1..Len(recs) :
                (/\ i < j
                 /\ ~IsNull(Catalogue[RowOf(recs[i])].popularity)
                 /\ ~IsNull(Catalogue[RowOf(recs[j])].popularity)) =>
                    Val(Catalogue[RowOf(recs[i])].popularity)
                        >= Val(Catalogue[RowOf(recs[j])].popularity)

\* C5 amended: with an empty enriched history and no filters,
\* recommend_tonight(limit = n) runs no similarity query and returns
\* min(n, number of cached rows whose vote_average is not NULL) items: the
\* first rows of "ORDER BY popularity DESC" among those rows, a NULL
\* popularity sorting first, each with score 0.5, in_library true and method
\* cold_start_popularity.
C5_ColdStartReturnsRatedRows ==
    (Returned /\ req.mode = "tonight" /\ EmptyHistoryBranch
     /\ req.filters = NoFilters) =>
        /\ ColdStartItems
        /\ Len(recs) = Min2(req.limit, Cardinality(RatedRows))
        /\ \A i \in 1..Len(recs) : RowOf(recs[i]) \in RatedRows
        /\ \A i, j \in 1..Len(recs) : i < j =>
                /\ RowOf(recs[i]) # RowOf(recs[j])
                /\ SortsBefore(RowOf(recs[i]), RowOf(recs[j]))
        /\ \A i \in 1..Len(recs) :
                \A k \in RatedRows \ {RowOf(recs[j]) : j \in 1..Len(recs)} :
                    SortsBefore(RowOf(recs[i]), k)

\* C5's case: a cold start with limit 2 over a cache of three rows, one of
\* them without vote_average, returned two items
C5_Witness ==
    /\ Returned /\ req.mode = "tonight" /\ EmptyHistoryBranch /\ coldStart
    /\ req.limit = 2 /\ Len(recs) = 2
    /\ Cardinality(cache) > Cardinality(RatedRows)

\* C6: recommend_grab returns an empty sequence, without a similarity query
\* and without the popularity fallback, whenever the profile has
\* total_watches == 0 and whenever _build_taste_vector gives no vector.
C6_GrabEmptyWithoutQuery ==
    (Done /\ req.mode = "grab" /\ profile.exception = "none"
     /\ (EmptyHistoryBranch \/ NoTasteVector)) =>
        /\ outcome = "list"
        /\ recs = <<>>
        /\ ~queried
        /\ ~coldStart

\* C6's case: a grab request of a user with watches, none of which gives a
\* taste reference, has ended
C6_Witness ==
    /\ Done /\ req.mode = "grab"
    /\ profile.exception = "none" /\ profile.stats.total_watches >= 1
    /\ taste = "no_refs"
    /\ recs = <<>>

\* the pairs (watch record, cache row) of the enriched history: the record
\* was created within the window and the row, a movie or a show, has its
\* tmdb_id
JoinedInWindow ==
    {<<i, k>> \in (1..Len(history)) \X cache :
        /\ history[i].created_at <= DepthDays
        /\ Catalogue[k].tmdb_id = history[i].tmdb_id
        /\ Catalogue[k].media_type \in {"movie", "show"}}

\* the watch records created within the window
HistoryInWindow == {i \in 1..Len(history) : history[i].created_at <= DepthDays}

C8_NoWatchedContentScored ==
    (Returned /\ queried) =>
        \A i \in 1..Len(recs) :
            ~\E j \in 1..Len(history) :
                /\ history[j].tmdb_id = recs[i].tmdb_id
                /\ history[j].completion_pct >= 40

\* C8's case: the similarity answer held a document of watched content, and
\* the request returned another item
C8_Witness ==
    /\ Returned /\ queried
    /\ Len(recs) >= 1
    /\ \E d \in 1..Len(results), j \in 1..Len(history) :
            /\ results[d].tmdb_id = {history[j].tmdb_id}
            /\ history[j].completion_pct >= 40

\* C9: every Recommendation recommend_tonight returns has in_library true
\* and every Recommendation recommend_grab returns has in_library false.
C9_LibraryFlagByMode ==
    Returned =>
        /\ req.mode = "tonight" => \A i \in 1..Len(recs) : recs[i].in_library
        /\ req.mode = "grab" => \A i \in 1..Len(recs) : ~recs[i].in_library

\* C9's case: recommend_tonight returned a scored item
C9_Witness ==
    /\ Returned /\ queried
    /\ req.mode = "tonight"
    /\ Len(recs) >= 1

ServiceError == outcome \in {"ConnectError", "HTTPError"}

\* C11: whatever the stored history, and unless the similarity service
\* fails, each of the three modes ends normally and returns at most limit
\* Recommendations.
C11_EveryModeReturnsAtMostLimit ==
    (Done /\ req.mode \in {"tonight", "grab", "rediscover"} /\ ~ServiceError) =>
        /\ outcome = "list"
        /\ Len(recs) <= req.limit

\* a returned Recommendation as _process_results built it
AsScored(rec) == [rec EXCEPT !.mode = "", !.explanation = ""]

\* C12: the scored list is in non-increasing score order, and candidates of
\* equal score keep the order in which the similarity service returned
\* them: the returned items are candidates of the loop at positions f that
\* grow along every run of equal scores.
C12_StableDescendingOrder ==
    (Returned /\ queried) =>
        \E f \in [1..Len(recs) -> 1..Len(unsorted)] :
            /\ \A i \in 1..Len(recs) : AsScored(recs[i]) = unsorted[f[i]]
            /\ \A i, j \in 1..Len(recs) : i < j =>
                    /\ f[i] # f[j]
                    /\ recs[i].score >= recs[j].score
                    /\ (recs[i].score = recs[j].score => f[i] < f[j])

\* C12's case: two different candidates of equal score were returned
C12_Witness ==
    /\ Returned /\ queried
    /\ Len(recs) >= 2
    /\ recs[1].score = recs[2].score
    /\ AsScored(recs[1]) # AsScored(recs[2])

\* the affinity map of the profile that holds targets of type t
AffinitiesOfType(t) ==
    IF t = "genre" THEN profile.genre_affinities ELSE profile.keyword_affinities

\* C13: in the profile of a non-empty history every block override, of a
\* genre or of a keyword, in the watched metadata or not, leaves its target
\* with affinity exactly -1.0, and every blocked genre is in
\* anti_profile.genres.
C13_BlockForcesMinusOne ==
    (Done /\ outcome = "profile" /\ history # <<>>) =>
        \A i \in 1..Len(overrides) : overrides[i].action = "block" =>
            LET o == overrides[i]
                aff == AffinitiesOfType(o.influence_type)
            IN  /\ o.influence_key \in DOMAIN aff
                /\ aff[o.influence_key] = -1000
                /\ o.influence_type = "genre" =>
                        o.influence_key \in Range(profile.anti_profile.genres)

\* the similarity service failed during the request: it was unreachable at
\* the collection lookup or the resolution of the taste references, it
\* answered that resolution with an error status, or the nearest-neighbour
\* query failed
ServiceFailed ==
    \/ taste \in {"raised", "bad_status"}
    \/ (taste = "vector" /\ queried /\ outcome = "HTTPError")

\* C14: when the similarity service fails, recommend_tonight returns the
\* cold start and recommend_grab returns the empty list; no error reaches
\* the caller.
C14_ServiceFailureDegrades ==
    (Done /\ req.mode \in {"tonight", "grab"} /\ ServiceFailed) =>
        /\ outcome = "list"
        /\ req.mode = "tonight" => coldStart
        /\ req.mode = "grab" => recs = <<>>

\* C15: when the commit of the recommendation log raises, recommend_tonight
\* and recommend_grab return exactly the list they return when the commit
\* succeeds, and no error reaches the caller.
C15_LogFailureKeepsResponse ==
    (Done /\ logWrite = "rolled_back") =>
        /\ req.mode \in {"tonight", "grab"}
        /\ outcome = "list"
        /\ recs = Recommendations(SortByScore(unsorted), req.mode, req.limit, profile)

\* C15's case: the commit failed in a request that returns an item
C15_Witness ==
    /\ Done /\ logWrite = "rolled_back"
    /\ Len(recs) >= 1

\* C16: while the log store accepts writes, every Recommendation a request
\* of any mode returns has its record in the recommendation log when the
\* request ends.
C16_EveryReturnedItemLogged ==
    (Returned /\ logWrite # "rolled_back") =>
        \A i \in 1..Len(recs) : \E j \in 1..Len(log) : log[j] = LogRows(recs)[i]

\* the filters of a request as the claim states them, for the cache row of
\* a returned Recommendation
SatisfiesFilters(tmdb, filters) ==
    /\ ~IsNull(filters.genres)
            => (Val(filters.genres) \cap Range(tmdb.genres) # {})
    /\ ~IsNull(filters.exclude_genres)
            => (Val(filters.exclude_genres) \cap Range(tmdb.genres) = {})
    /\ ~IsNull(filters.year_min)
            => (~IsNull(tmdb.year) /\ Val(tmdb.year) >= Val(filters.year_min))
    /\ ~IsNull(filters.year_max)
            => (~IsNull(tmdb.year) /\ Val(tmdb.year) <= Val(filters.year_max))
    /\ ~IsNull(filters.language)
            => tmdb.original_language = filters.language

\* C17: every Recommendation recommend_tonight or recommend_grab returns
\* satisfies every filter of the request: a requested genre, no excluded
\* genre, the year within year_min and year_max, the requested language.
C17_ReturnedItemsSatisfyFilters ==
    (Returned /\ req.mode \in {"tonight", "grab"}) =>
        \A i \in 1..Len(recs) : SatisfiesFilters(Catalogue[RowOf(recs[i])], req.filters)

----------------------------------------------------------------------------
(* explain on its own *)

\* signals of the Recommendations explain is called with
ExplainSignals ==
    {[method |-> "cold_start_popularity"]} \cup
    [similarity : {0, 6000, 6100},
     genre_boost : {-1000, 0, 100, 1500, 1600, 2000, 2100},
     anti_penalty : {0}, popularity_factor : {0}]

\* personnel and keyword affinities of normalised profiles
ExplainPersonnel ==
    {EmptyMap, [n \in {"Nolan"} |-> 1000], [n \in {"Nolan"} |-> -1000],
     [n \in {"Nolan", "Bale"} |-> IF n = "Nolan" THEN -1000 ELSE 400],
     [n \in {"Nolan", "Bale"} |-> IF n = "Nolan" THEN -1000 ELSE 450],
     [n \in {"Nolan", "Bale"} |-> IF n = "Nolan" THEN -1000 ELSE 500]}

ExplainKeywords ==
    {EmptyMap, [k \in {"heist"} |-> 1000],
     [k \in {"heist", "gore"} |-> IF k = "gore" THEN -1000 ELSE 300]}

InitExplain ==
    /\ cache = {}
    /\ history = <<>>
    /\ feedback = <<>>
    /\ overrides = <<>>
    /\ hashOrder = RequestHashOrder
    /\ first = Null
    /\ NoEmbedRun
    /\ pc = "idle"
    /\ req \in [mode : {"", "rediscover"}, limit : {0}, filters : {NoFilters}]
    /\ profile \in {[EmptyProfile EXCEPT !.personnel_affinities = pa,
                                         !.keyword_affinities = ka] :
                        pa \in ExplainPersonnel, ka \in ExplainKeywords}
    /\ recs \in {<<[TmdbToRecommendation(Catalogue[k], 5000, TRUE)
                        EXCEPT !.signals = s, !.mode = m]>> :
                    k \in {1, 2}, s \in ExplainSignals, m \in {"", "tonight"}}
    /\ accessible = {}
    /\ watched = {}
    /\ taste = "unset"
    /\ refs = <<>>
    /\ queried = FALSE
    /\ coldStart = FALSE
    /\ outcome = "none"
    /\ results = <<>>
    /\ unsorted = <<>>
    /\ log = <<>>
    /\ logWrite = "none"
    /\ upserted = FALSE
    /\ NoSignalCall

\* one call explain(rec, profile, mode) for the Recommendation of recs
ExplainCall ==
    /\ pc = "idle"
    /\ recs' = <<[recs[1] EXCEPT !.explanation = Explain(recs[1], profile, req.mode)]>>
    /\ outcome' = "explanation"
    /\ pc' = "done"
    /\ UNCHANGED <<procVars, embVars, dbVars, req, profile, accessible, watched, taste, refs, queried,
                   coldStart, results, unsorted, log, logWrite, upserted, sigVars>>

NextExplain == ExplainCall

SpecExplain == InitExplain /\ [][NextExplain]_vars

\* the six rules of the ladder for the explained Recommendation, in order
LadderRules ==
    LET s == recs[1].signals
        pm == FindPersonnelMatch(profile)
    IN  <<"method" \in DOMAIN s /\ s.method = "cold_start_popularity",
          SignalGet(s, "genre_boost") > MultiSignalBoost /\ ~IsNull(pm),
          ~IsNull(pm) /\ Val(pm) > PersonnelDominant,
          SignalGet(s, "genre_boost") > GenreDominant,
          FindThemeMatch(profile),
          SignalGet(s, "similarity") > HighSimilarity>>

\* the template categories of the six rules
LadderCategories ==
    <<"popular", "multi_signal", "director_match", "genre_match", "theme_match",
      "similar_vibe">>

\* the first rule that matches, 0 when none does
FirstRule ==
    IF \E i \in 1..6 : LadderRules[i]
    THEN CHOOSE i \in 1..6 : LadderRules[i] /\ \A j \in 1..(i - 1) : ~LadderRules[j]
    ELSE 0

\* explain was called outside rediscover mode
Explained ==
    /\ Done /\ outcome = "explanation"
    /\ req.mode # "rediscover"
    /\ ~(req.mode = "" /\ recs[1].mode = "rediscover")

\* C18 as stated: outside rediscover mode the category is that of the first
\* matching rule in the order cold-start, combined, personnel, genre, theme,
\* similarity, and the similarity template when no rule matches.
C18_LadderWithSimilarityFallback ==
    Explained =>
        recs[1].explanation =
            IF FirstRule # 0 THEN LadderCategories[FirstRule] ELSE "similar_vibe"

\* C18 with the fallback the code has: outside rediscover mode the category
\* is that of the first matching rule in the stated order; when no rule
\* matches it is the genre template if genre_boost > 0 and the similarity
\* template otherwise.
C18_LadderWithGenreFallback ==
    Explained =>
        recs[1].explanation =
            IF FirstRule # 0 THEN LadderCategories[FirstRule]
            ELSE IF SignalGet(recs[1].signals, "genre_boost") > 0 THEN "genre_match"
            ELSE "similar_vibe"

\* C18's case: no rule of the ladder matches a Recommendation with a
\* positive genre_boost
C18_Witness ==
    /\ Explained
    /\ FirstRule = 0
    /\ SignalGet(recs[1].signals, "genre_boost") > 0
    /\ recs[1].explanation = "genre_match"

----------------------------------------------------------------------------
(* the taste references on their own *)

MaxOverCap == 2    \* watch rows beyond the cap of 100 references

\* the watch every long history repeats, and the rows one of its positions
\* holds instead: a rewatch (heavier), an abandoned watch (negative signal),
\* a watch of an item without embedding
TasteWatch == WatchRow(1, 90, 1, Null, Null, 0)

TasteOddWatches ==
    {WatchRow(1, 90, 2, Null, Null, 0), WatchRow(1, 10, 1, Null, Null, 0),
     WatchRow(2, 90, 1, Null, Null, 0)}

\* histories of one row less than the cap up to MaxOverCap rows more
TasteHistories ==
    {[i \in 1..n |-> IF i = p THEN odd ELSE TasteWatch] :
        n \in (TasteRefCap - 1)..(TasteRefCap + MaxOverCap),
        p \in 1..(TasteRefCap + MaxOverCap), odd \in TasteOddWatches}

InitTaste ==
    /\ cache = {1, 3}
    /\ history \in TasteHistories
    /\ feedback = <<>>
    /\ overrides = <<>>
    /\ hashOrder = RequestHashOrder
    /\ IdleRequest
    /\ NoSignalCall

\* lines 229-239 of _build_taste_vector: build_taste_embedding and the
\* references kept for the resolution
ResolveTasteRefs ==
    /\ pc = "idle"
    /\ refs' = TasteRefs(BuildTasteEmbedding(history, cache, feedback))
    /\ taste' = IF refs' = <<>> THEN "no_refs" ELSE "refs"
    /\ outcome' = "refs"
    /\ pc' = "done"
    /\ UNCHANGED <<procVars, embVars, dbVars, req, profile, accessible, watched, queried, coldStart,
                   results, unsorted, recs, log, logWrite, upserted, sigVars>>

NextTaste == ResolveTasteRefs

SpecTaste == InitTaste /\ [][NextTaste]_vars

\* the watches of the window that qualify as taste references: the item has
\* an embedding and signal x decay is positive
QualifyingRefs ==
    LET watches == GetEnrichedHistory(history, cache)
        q == SelectSeq2(watches, {i \in 1..Len(watches) :
                    /\ ~IsNull(watches[i].tmdb.embedding_id)
                    /\ WeightedSignal(watches[i], feedback) > 0})
    IN  [i \in 1..Len(q) |-> [embedding_id |-> Val(q[i].tmdb.embedding_id),
                              weight |-> WeightedSignal(q[i], feedback)]]

\* C19: the references of the taste vector are qualifying watches only
\* (weight > 0, item with an embedding_ref); all of them when at most 100
\* qualify, and otherwise exactly the 100 of highest weight: no qualifying
\* watch left out is heavier than one that is used.
C19_HundredHeaviestRefs ==
    (Done /\ outcome = "refs") =>
        LET all == QualifyingRefs
            left == {v \in Range(all) : Count(v, all) > Count(v, refs)}
        IN  /\ \A v \in Range(refs) : Count(v, refs) <= Count(v, all)
            /\ Len(refs) = Min2(Len(all), TasteRefCap)
            /\ \A o \in left, u \in Range(refs) : o.weight <= u.weight

\* C20: build_profile is deterministic: a second call with the same history
\* rows, feedback rows, overrides, window and current time returns a
\* profile identical to the first, anti-profile lists included.
C20_BuildProfileDeterministic ==
    (pc = "again") => first = {profile}

----------------------------------------------------------------------------
(* _temporal_decay on its own *)

\* the timestamps of a call, as the age in days that line 369 computes
\* (negative for a timestamp later than now), and the missing timestamp
DecayInputs == {Null} \cup {{d} : d \in DecayDays \cup {-90, 180, 200, 400}}

InitDecay ==
    /\ cache = {}
    /\ history = <<>>
    /\ feedback = <<>>
    /\ overrides = <<>>
    /\ hashOrder = RequestHashOrder
    /\ IdleRequest
    /\ sigIn \in [watched_at : DecayInputs]
    /\ sigOut = Null

\* one call _temporal_decay(watched_at)
TemporalDecayCall ==
    /\ sigOut = Null
    /\ sigOut' = {TemporalDecay(sigIn.watched_at)}
    /\ UNCHANGED <<procVars, embVars, dbVars, reqVars, sigIn>>

NextDecay == TemporalDecayCall

SpecDecay == InitDecay /\ [][NextDecay]_vars

\* C21: _temporal_decay returns a value in (0, 1] for every timestamp, a
\* timestamp later than the current time included, and exactly 0.5 for a
\* missing timestamp.
C21_DecayInUnitInterval ==
    \A v \in sigOut :
        /\ v > 0 /\ v <= 1000
        /\ IsNull(sigIn.watched_at) => v = 500

----------------------------------------------------------------------------
(* EmbeddingService.embed_library: embedding.py.  The rows of one
   media_type are the keys 1..MaxItems; the document id of a row is its
   key ("media_type:tmdb_id" is unique per row). *)

MaxItems == 3      \* tmdb_cache rows of the media_type
MaxBatch == 2      \* largest batch_size

ItemKeys == 1..MaxItems

\* db.rollback() of a run that holds one transaction from its start: the
\* ids of every item of the run are lost
RolledBackToStart(committed, runItems) == committed \ Range(runItems)

\* db.rollback() in the handler of line 274: it ends the transaction of the
\* failed batch; what earlier batches committed stays
RolledBack(committed, runItems) == committed

\* upsert_embeddings without raise_for_status
UpsertNeverRaises(reply) == FALSE

\* upsert_embeddings raises unless the store answered with success; after a
\* lost reply the store holds the vectors and the call raises
UpsertRaises(reply) == reply # "ok"

\* what the store holds after the upsert of ids
Upserted(store, ids, reply) ==
    IF reply \in {"ok", "lost_reply"} THEN store \cup ids ELSE store

InitEmbed ==
    /\ cache = {}
    /\ history = <<>>
    /\ feedback = <<>>
    /\ overrides = <<>>
    /\ hashOrder = RequestHashOrder
    /\ pc = "idle"
    /\ first = Null
    /\ req = [mode |-> "", limit |-> 0, filters |-> NoFilters]
    /\ profile = EmptyProfile
    /\ accessible = {}
    /\ watched = {}
    /\ taste = "unset"
    /\ refs = <<>>
    /\ queried = FALSE
    /\ coldStart = FALSE
    /\ outcome = "none"
    /\ results = <<>>
    /\ unsorted = <<>>
    /\ recs = <<>>
    /\ log = <<>>
    /\ logWrite = "none"
    /\ upserted = FALSE
    /\ NoSignalCall
    /\ embCommitted \in SUBSET ItemKeys
    /\ embStore = embCommitted
    /\ embPending = {}
    /\ embRun \in [pc : {"idle"}, items : {<<>>}, batch_size : 1..MaxBatch,
                   start : {1}, valid : {<<>>}, texts : SUBSET ItemKeys,
                   embedded : {0}, failed : {0}, expired : {FALSE},
                   last : {"none"}]

\* the items of the batch that starts at embRun.start
Batch == SubSeq(embRun.items, embRun.start,
                Min2(embRun.start + embRun.batch_size - 1, Len(embRun.items)))

\* the next iteration of the batch loop, the batch having ended as last
\* with n more failed items
NextBatch(n, last) ==
    [embRun EXCEPT !.pc = "batch", !.start = @ + embRun.batch_size,
                   !.valid = <<>>, !.failed = @ + n, !.last = last]

\* lines 194-211: the rows without embedding_id; none gives the early return
SelectItems ==
    /\ embRun.pc = "idle"
    /\ LET items == SetToSeq(ItemKeys \ embCommitted)
       IN  embRun' = [embRun EXCEPT !.items = items,
                          !.pc = IF items = <<>> THEN "done" ELSE "batch"]
    /\ UNCHANGED <<procVars, dbVars, reqVars, sigVars, embCommitted, embPending,
                   embStore>>

\* lines 218-233: the texts of the next batch; items without text fail
BuildTexts ==
    /\ embRun.pc = "batch"
    /\ IF embRun.start > Len(embRun.items)
       THEN embRun' = [embRun EXCEPT !.pc = "done"]
       ELSE LET valid == SelectSeq(Batch, LAMBDA k : k \in embRun.texts)
                blank == Len(Batch) - Len(valid)
            IN  IF valid = <<>>
                THEN embRun' = NextBatch(blank, "no_text")
                ELSE embRun' = [embRun EXCEPT !.pc = "embed", !.valid = valid,
                                              !.failed = @ + blank]
    /\ UNCHANGED <<procVars, dbVars, reqVars, sigVars, embCommitted, embPending,
                   embStore>>

\* db.rollback() expires the instances of the session when it ends a
\* transaction: reading an attribute of an item afterwards (lines 225 and
\* 282) can raise, outside every handler of embed_library
ExpiredItemRaises ==
    /\ embRun.pc = "batch"
    /\ embRun.expired
    /\ embRun.start <= Len(embRun.items)
    /\ embRun' = [embRun EXCEPT !.pc = "raised"]
    /\ UNCHANGED <<procVars, dbVars, reqVars, sigVars, embCommitted, embPending,
                   embStore>>

\* lines 236-246: generate_embeddings_batch and the count check
GenerateEmbeddings(result) ==
    /\ embRun.pc = "embed"
    /\ embRun' = IF result = "ok" THEN [embRun EXCEPT !.pc = "upsert"]
                 ELSE NextBatch(Len(embRun.valid), result)
    /\ UNCHANGED <<procVars, dbVars, reqVars, sigVars, embCommitted, embPending,
                   embStore>>

\* lines 265-270 and 274-277: upsert_embeddings, then the embedding_id of
\* the batch's items set in the session; a raise goes to the rollback
UpsertEmbeddings(result) ==
    /\ embRun.pc = "upsert"
    /\ embStore' = Upserted(embStore, Range(embRun.valid), result)
    /\ IF UpsertRaises(result)
       THEN /\ embRun' = [NextBatch(Len(embRun.valid), "upsert_failed")
                                EXCEPT !.expired = TRUE]
            /\ embPending' = {}
       ELSE /\ embRun' = [embRun EXCEPT !.pc = "commit"]
            /\ embPending' = embPending \cup Range(embRun.valid)
    /\ UNCHANGED <<procVars, dbVars, reqVars, sigVars, embCommitted>>

\* lines 271-277: db.commit(); when it raises, db.rollback(), which can
\* raise in turn
CommitBatch(result) ==
    /\ embRun.pc = "commit"
    /\ embPending' = {}
    /\ CASE result = "ok" ->
                /\ embCommitted' = embCommitted \cup embPending
                /\ embRun' = [NextBatch(0, "committed")
                                EXCEPT !.embedded = @ + Len(embRun.valid)]
         [] result = "rolled_back" ->
                /\ embCommitted' = RolledBack(embCommitted, embRun.items)
                /\ embRun' = [NextBatch(Len(embRun.valid), "rolled_back")
                                EXCEPT !.expired = TRUE]
         [] result = "rollback_raises" ->
                /\ embCommitted' = embCommitted
                /\ embRun' = [embRun EXCEPT !.pc = "raised", !.last = "rolled_back",
                                            !.failed = @ + Len(embRun.valid)]
    /\ UNCHANGED <<procVars, dbVars, reqVars, sigVars, embStore>>

NextEmbed ==
    \/ SelectItems
    \/ BuildTexts
    \/ ExpiredItemRaises
    \/ \E result \in {"ok", "raises", "mismatch"} : GenerateEmbeddings(result)
    \/ \E result \in {"ok", "fails", "lost_reply"} : UpsertEmbeddings(result)
    \/ \E result \in {"ok", "rolled_back", "rollback_raises"} : CommitBatch(result)

SpecEmbed == InitEmbed /\ [][NextEmbed]_vars

\* C22: in embed_library the embedding_id of an item of a batch that was
\* upserted and committed stays set whatever happens in a later batch: no
\* step of the run takes a committed embedding_id away.
C22_CommittedIdsStay == [][embCommitted \subseteq embCommitted']_vars

\* C22's case: a batch was committed and the commit of the last batch
\* failed and was rolled back
C22_Witness ==
    /\ embRun.pc \in {"batch", "done", "raised"}
    /\ embRun.last = "rolled_back"
    /\ embRun.embedded >= 1
    /\ \E k \in Range(embRun.items) : k \in embCommitted

\* C30: at every point of an embed_library run, whatever embedding, upsert
\* and commit failures occur, a cache row has a committed embedding_id only
\* if a vector with that id was upserted with success before.
C30_CommittedIdsWereUpserted == embCommitted \subseteq embStore

\* C30's case: the run committed a batch and another batch of it failed at
\* the upsert, so that a row of the run has no vector and no embedding_id
C30_Witness ==
    /\ embRun.embedded >= 1
    /\ embRun.last = "upsert_failed"
    /\ \E k \in Range(embRun.items) : k \notin embStore /\ k \notin embCommitted
    /\ \E k \in Range(embRun.items) : k \in embStore /\ k \in embCommitted

----------------------------------------------------------------------------
\* (pos - neg) / pool_max in thousandths, pool_max being the largest of the
\* accumulated values of the pool and of 1.0: the normalisation C23 states
StatedAffinity(pos, neg, accumulated) ==
    RoundDiv(1000 * (pos - neg), SetMax({Abs(v) : v \in accumulated} \cup {PoolFloor}))

\* the value pool[k] accumulated for k, 0 when the pool has no key k
Accumulated(pool, k) == IF k \in DOMAIN pool THEN pool[k] ELSE 0

\* no override of the user applies to a genre
NoGenreOverride == \A i \in 1..Len(overrides) : overrides[i].influence_type # "genre"

\* C23: for every key of the genre, personnel and keyword pools, the
\* affinity build_profile returns before overrides is (accumulated positive
\* weight - accumulated negative weight) / pool_max, pool_max being the
\* pool's largest absolute accumulated value floored at 1.0.
C23_AffinityIsNormalisedDifference ==
    (pc = "done" /\ outcome = "profile" /\ GetEnrichedHistory(history, cache) # <<>>) =>
        LET P == Pools(GetEnrichedHistory(history, cache), feedback)
        IN  /\ NoGenreOverride =>
                \A g \in DOMAIN P.genre_scores \cup DOMAIN P.anti_genres :
                    /\ g \in DOMAIN profile.genre_affinities
                    /\ profile.genre_affinities[g] =
                          StatedAffinity(Accumulated(P.genre_scores, g),
                                         Accumulated(P.anti_genres, g),
                                         Values(P.genre_scores) \cup Values(P.anti_genres))
            /\ \A p \in DOMAIN P.personnel_scores :
                    /\ p \in DOMAIN profile.personnel_affinities
                    /\ profile.personnel_affinities[p] =
                          StatedAffinity(P.personnel_scores[p], 0, Values(P.personnel_scores))
            /\ \A k \in DOMAIN P.keyword_scores \cup DOMAIN P.anti_keywords :
                    /\ k \in DOMAIN profile.keyword_affinities
                    /\ profile.keyword_affinities[k] =
                          StatedAffinity(Accumulated(P.keyword_scores, k),
                                         Accumulated(P.anti_keywords, k),
                                         Values(P.keyword_scores) \cup Values(P.anti_keywords))

----------------------------------------------------------------------------
(* submit_feedback (api/recommendations.py) followed by the feedback lookup
   of build_profile.  feedback holds the rows of the table in the order of
   their insertion: submit_feedback inserts a row per submission and the
   table has no unique constraint. *)

MaxSubmissions == 3

FeedbackPolarities == {"up", "down", "dismiss"}
FeedbackTmdbIds == {1, 2}

\* the orders in which a SELECT without ORDER BY can return n rows
RowOrders(n) == {o \in [1..n -> 1..n] : \A i, j \in 1..n : o[i] = o[j] => i = j}

InitFeedback ==
    /\ cache = {}
    /\ history = <<>>
    /\ feedback = <<>>
    /\ overrides = <<>>
    /\ hashOrder = RequestHashOrder
    /\ IdleRequest
    /\ sigIn \in [tmdb_id : {1}, completion_pct : {0, 90}, watch_count : {1, 2},
                  user_rating : {Null}, fb : {Null}]
    /\ sigOut = Null

\* POST /users/{user_id}/feedback: a new row, committed
SubmitFeedback(tmdb_id, polarity) ==
    /\ pc = "idle"
    /\ Len(feedback) < MaxSubmissions
    /\ feedback' = Append(feedback, [tmdb_id |-> tmdb_id, feedback |-> polarity])
    /\ UNCHANGED <<procVars, embVars, cache, history, overrides, reqVars, sigVars>>

\* _get_feedback, the rows arriving in the order o, and _compute_signal for
\* the watch sigIn with feedback.get(tmdb_id, {})
GetFeedbackCall(o) ==
    /\ pc = "idle"
    /\ LET rows == [i \in 1..Len(feedback) |-> feedback[o[i]]]
           fb == GetFeedback(rows, sigIn.tmdb_id)
       IN  /\ sigIn' = [sigIn EXCEPT !.fb = fb]
           /\ sigOut' = {ComputeSignal(sigIn, fb)}
    /\ pc' = "done"
    /\ UNCHANGED <<procVars, embVars, dbVars, req, profile, accessible, watched, taste, refs,
                   queried, coldStart, outcome, results, unsorted, recs, log, logWrite,
                   upserted>>

NextFeedback ==
    \/ \E tmdb_id \in FeedbackTmdbIds, polarity \in FeedbackPolarities :
            SubmitFeedback(tmdb_id, polarity)
    \/ \E o \in RowOrders(Len(feedback)) : GetFeedbackCall(o)

SpecFeedback == InitFeedback /\ [][NextFeedback]_vars

\* C24: after any sequence of feedback submissions for one (user, content)
\* pair, the feedback term _compute_signal adds in a later build_profile is
\* the term of the polarity submitted last.
C24_LastSubmittedPolarityCounts ==
    (pc = "done" /\ sigOut # Null) =>
        /\ sigIn.fb = GetFeedback(feedback, sigIn.tmdb_id)
        /\ sigOut = {ComputeSignal(sigIn, GetFeedback(feedback, sigIn.tmdb_id))}

----------------------------------------------------------------------------
\* the name _find_personnel_match returns (line 213): the first name of
\* personnel_affinities with score > 0.4, which is the name of the largest
\* score; only evaluated when there is a match
PersonnelMatchName(prof) ==
    CHOOSE n \in DOMAIN prof.personnel_affinities :
        {prof.personnel_affinities[n]} = FindPersonnelMatch(prof)

\* the directors and cast of the cache row a Recommendation was made from
CreditedOn(rec) ==
    UNION {Range(Catalogue[k].directors) \cup Range(Catalogue[k].cast) :
            k \in {j \in CacheKeys : /\ Catalogue[j].tmdb_id = rec.tmdb_id
                                     /\ Catalogue[j].media_type = rec.media_type}}

\* C25: the combined and the personnel template are chosen only when a
\* person credited on the recommended item has a personnel affinity above
\* the threshold of the rule (0.4 combined, 0.5 personnel), and the name
\* filled in is such a credited person.
C25_PersonnelTemplateNamesCreditedPerson ==
    (pc = "done" /\ outcome = "explanation"
        /\ recs[1].explanation \in {"multi_signal", "director_match"}) =>
        /\ PersonnelMatchName(profile) \in CreditedOn(recs[1])
        /\ profile.personnel_affinities[PersonnelMatchName(profile)] >
              (IF recs[1].explanation = "multi_signal" THEN PersonnelMatchMin
               ELSE PersonnelDominant)

----------------------------------------------------------------------------
(* The loop of recommend_rediscover (lines 200-223) and _explain_rediscover
   on the rows of the query, for a cut-off that was computed. *)

YearDays  == 365
MonthDays == 30

\* datetime.fromisoformat: a text with an offset gives an aware datetime
FromIsoformat(text) ==
    [age |-> text.age, tzinfo |-> IF text.utcoffset THEN "utc" ELSE "none"]

\* _explain_rediscover (lines 183-198): the time_ago phrase, without its
\* count.  datetime.now() is naive: subtracting an aware datetime raises
\* TypeError, which the handler of line 195 turns into "a while back"
ExplainRediscover(signals) ==
    IF "last_watched" \notin DOMAIN signals THEN "a while back"
    ELSE LET dt == FromIsoformat(signals.last_watched)
         IN  IF dt.tzinfo # "none" THEN "a while back"
             ELSE IF dt.age > YearDays THEN "years ago"
             ELSE IF dt.age > MonthDays THEN "months ago"
             ELSE "recently"

RediscoverWatchDomain ==
    {WatchRow(1, 90, 1, Null, Null, 180),  WatchRow(1, 90, 1, Null, {200}, 0),
     WatchRow(1, 100, 2, {9}, {400}, 10),  WatchRow(2, 90, 1, Null, {365}, 0),
     WatchRow(2, 90, 1, Null, {366}, 0),   WatchRow(1, 90, 1, Null, {179}, 0),
     WatchRow(2, 70, 1, Null, {400}, 0),   WatchRow(1, 85, 1, Null, {731}, 0)}

InitRediscover ==
    /\ cache \in SUBSET CacheKeys
    /\ history \in SeqsUpTo(RediscoverWatchDomain, MaxHistory)
    /\ feedback = <<>>
    /\ overrides = <<>>
    /\ hashOrder = RequestHashOrder
    /\ IdleRequest
    /\ NoSignalCall

\* lines 200-223 for the rows of the query of lines 181-194
RediscoverLoopCall(limit) ==
    /\ pc = "idle"
    /\ req' = [mode |-> "rediscover", limit |-> limit, filters |-> NoFilters]
    /\ Return(Finish(RediscoverLoop(RediscoverRows(history, cache), limit),
                     "rediscover", profile, "rediscover"))
    /\ UNCHANGED <<procVars, embVars, dbVars, profile, accessible, watched, taste, refs,
                   queried, coldStart, results, unsorted, log, logWrite, upserted,
                   sigVars>>

NextRediscover == \E limit \in 1..MaxLimit : RediscoverLoopCall(limit)

SpecRediscover == InitRediscover /\ [][NextRediscover]_vars

\* the phrase C26 states for a timestamp days old
StatedPhrase(days) ==
    IF days < MonthDays THEN "recently"
    ELSE IF days <= YearDays THEN "months ago"
    ELSE "years ago"

----------------------------------------------------------------------------
\* C27: recommend_grab returns a non-empty list only if a cache row was
\* inserted between its snapshot of the accessible ids and its metadata
\* lookups; when the cache is not modified during the request, every
\* candidate with metadata is in_library and the list is empty.
C27_GrabNeedsConcurrentInsert ==
    (Returned /\ req.mode = "grab") =>
        /\ recs # <<>> =>
              /\ upserted
              /\ \A i \in 1..Len(recs) : recs[i].tmdb_id \notin accessible
        /\ ~upserted =>
              /\ \A i \in 1..Len(unsorted) : unsorted[i].in_library
              /\ recs = <<>>

\* C27's case: a row was inserted while a grab request ran, and the request
\* returned an item made from it
C27_Witness ==
    /\ Returned /\ req.mode = "grab" /\ queried
    /\ upserted
    /\ Len(recs) >= 1
    /\ \A i \in 1..Len(recs) : recs[i].tmdb_id \notin accessible

----------------------------------------------------------------------------
(* The weighted average of _build_taste_vector (lines 237-266).  A vector
   of the store is written as the id it is stored under; the result is the
   list of (vector, weight it was multiplied by) and the divisor. *)

MaxRefs == 3

VectorIds == {"movie:1", "movie:2", "movie:3"}
VectorWeights == {1000, 5000}

\* weighted_refs of build_taste_embedding: weights are positive
VectorRefs ==
    {r \in SeqsUpTo([embedding_id : VectorIds, weight : VectorWeights], MaxRefs) :
        r # <<>>}

\* the answers of the store to "get" for ids: the vectors it holds among
\* the ids asked for, each once, in an order of its own
GetAnswers(ids, stored) ==
    LET found == Range(ids) \cap stored
    IN  {a \in SeqsUpTo(found, Cardinality(found)) :
            /\ Len(a) = Cardinality(found)
            /\ \A i, j \in 1..Len(a) : a[i] = a[j] => i = j}

\* lines 250-266: None without embeddings, else the terms of the loop of
\* line 259 and total_weight of line 257
WeightedAverage(embeddings, weights) ==
    IF embeddings = <<>> THEN [vector |-> "None", terms |-> <<>>, total_weight |-> 0]
    ELSE [vector |-> "taste",
          terms |-> [j \in 1..Min2(Len(embeddings), Len(weights)) |->
                        [embedding |-> embeddings[j], weight |-> weights[j]]],
          total_weight |-> SumSeq(Take(weights, Len(embeddings)))]

InitVector ==
    /\ cache = {}
    /\ history = <<>>
    /\ feedback = <<>>
    /\ overrides = <<>>
    /\ hashOrder = RequestHashOrder
    /\ IdleRequest
    /\ sigIn \in [weighted_refs : VectorRefs, stored : SUBSET VectorIds]
    /\ sigOut = Null

\* lines 237-266 for the references sigIn.weighted_refs, the store
\* answering status 200 with embeddings
WeightedAverageCall(embeddings) ==
    /\ sigOut = Null
    /\ LET weighted_refs == TasteRefs(sigIn.weighted_refs)
           weights == [i \in 1..Len(weighted_refs) |-> weighted_refs[i].weight]
       IN  sigOut' = {WeightedAverage(embeddings, weights)}
    /\ UNCHANGED <<procVars, embVars, dbVars, reqVars, sigIn>>

NextVector ==
    \E embeddings \in GetAnswers([i \in 1..Len(sigIn.weighted_refs) |->
                                     sigIn.weighted_refs[i].embedding_id],
                                 sigIn.stored) :
        WeightedAverageCall(embeddings)

SpecVector == InitVector /\ [][NextVector]_vars

\* C28: in _build_taste_vector every returned vector is multiplied by the
\* weight of a watch whose embedding_ref it was fetched for, and the divisor
\* is the sum of exactly those weights, also when the store returns fewer
\* vectors, another order, or two watches share one embedding_ref.
C28_VectorsTimesTheirWeights ==
    \A out \in sigOut :
        out.vector = "taste" =>
            /\ \A j \in 1..Len(out.terms) :
                  \E i \in 1..Len(sigIn.weighted_refs) :
                      /\ sigIn.weighted_refs[i].embedding_id = out.terms[j].embedding
                      /\ sigIn.weighted_refs[i].weight = out.terms[j].weight
            /\ out.total_weight
                  = SumSeq([j \in 1..Len(out.terms) |-> out.terms[j].weight])

----------------------------------------------------------------------------
\* C29: no list recommend_tonight, recommend_grab or recommend_rediscover
\* returns holds two Recommendations of the same content (same tmdb_id and
\* media_type), also when the user has several watch records of one item or
\* the store holds a movie and a show with the same tmdb_id.
C29_NoContentTwice ==
    Returned =>
        \A i, j \in 1..Len(recs) :
            (recs[i].tmdb_id = recs[j].tmdb_id
                /\ recs[i].media_type = recs[j].media_type) => i = j

====
